---- MODULE Spec2Model ----
(***************************************************************************)
(* GeoGuess python-service: the Coverage Search Loop                       *)
(* (app/streetview.py), Sub-Area Discovery and the area cache, the cache   *)
(* files, the point sampler and the place key (app/geo.py), as state       *)
(* machines.                                                               *)
(*                                                                         *)
(* Conventions                                                             *)
(*  - Python None is the record None for dict-like values and the          *)
(*    one-element tuple NoneStr for strings; strings are tuples of         *)
(*    one-character strings.                                               *)
(*  - A geometry is a GeoJSON geometry dict.  Its coordinates are kept as  *)
(*    the set of unit grid cells it occupies (one cell is 0.02 degree) and *)
(*    "enc", the vertex order in which the rings are written.              *)
(*  - cv_* variables belong to find_streetview_random, d_* variables to    *)
(*    fetch_city_geojson, k_* variables to the place-key requests, c_*     *)
(*    variables to the cache files, s_* variables to the point sampler,    *)
(*    m_* variables to the cache pre-builder (app/make_geojson_cache.py)   *)
(*    and p_* variables to the panorama batch driver                       *)
(*    (scripts/batch_panorama.py).                                         *)
(***************************************************************************)
EXTENDS Integers, Sequences, FiniteSets, TLC

VARIABLES
  \* ---- find_streetview_random (streetview.py:63-100) ----
  cv_pc,            \* "call" | "loop" | "query" | "returned" | "raised" | "off"
  geojson_area,     \* argument / resolved area (None = no area)
  cv_city,          \* argument city (NoneStr = not given)
  cv_country,       \* argument country
  optimise,         \* argument
  max_attempts,     \* argument
  radius,           \* argument (NoRadius = None)
  api_key_ok,       \* api_key or GOOGLE_MAPS_API_KEY is configured
  attempt,          \* local attempt
  last_metadata,    \* local last_metadata
  latlng,           \* locals (lat, lng) of the current attempt
  effective_radius, \* local effective_radius of the current attempt
  cv_result,        \* the returned dict, or None
  cv_error,         \* the exception raised, or None
  cv_samples,       \* history: number of points sampled so far
  cv_log,           \* history: the metadata responses received, in order
  \* ---- fetch_city_geojson (geo.py:87-227) ----
  d_pc,             \* "idle" | "submit" | "collect" | "returned" | "raised" | "off"
  d_city,           \* argument city
  d_country,        \* argument country
  boundary,         \* history: the geocoder's response to the boundary request of this call
  city_shape,       \* shapely geometry of the full boundary
  submitted,        \* number of synonyms submitted to the executor so far
  task,             \* per synonym: "new" | "queued" | "sleeping" | "requesting" | "done" | "collected"
  future,           \* per synonym: the future's outcome once done
  response,         \* history: per synonym, the geocoder's response to its request
  seen_geoms,       \* local seen_geoms
  candidates,       \* local candidates: sequence of <<area, feature>>
  CACHE,            \* _CITY_SMALL_POLYGONS_CACHE: place key -> feature list
  d_result,         \* returned feature list, or <<>> before return
  d_error,          \* the exception raised, or None
  \* ---- place-key requests (geo.py:81-84) ----
  k_pc,             \* "req" | "done" | "off"
  k_city, k_country,   \* the first request
  k_city2, k_country2, \* a request that differs from it cosmetically
  k_key, k_key2,       \* the cache keys computed for the two requests
  \* ---- cache files (geo.py:230-312) ----
  c_pc,             \* "ready" | "off"
  DISK,             \* the cache directory: file name -> file content
  c_last,           \* history: the last cache-file operation and what it returned
  c_prev,           \* history: the operation before it, when a save or bulk load
  \* ---- random_point_in_polygon / random_points_in_polygon (geo.py:56-78) ----
  s_pc,             \* "idle" | "loop" | "returned" | "raised" | "off"
  s_fn,             \* the function called
  s_geom,           \* argument geom, as a shapely geometry
  s_count,          \* number of points asked for (1 for random_point_in_polygon)
  s_max_tries,      \* argument max_tries
  s_center_bias,    \* argument center_bias (NoBias = None)
  s_tries,          \* iterations of the for loop made for the current point
  s_points,         \* the points returned so far, as (lat, lng)
  s_error,          \* the exception raised, or None
  s_log,            \* history: the outcome of every draw for the current point
  \* ---- cache pre-builder (make_geojson_cache.py:66-102) ----
  m_pc,             \* "start" | "loop" | "pool" | "done" | "off"
  cities,           \* local cities, after --limit
  concurrency,      \* args.concurrency
  m_task,           \* per city: where its _process_city is, and what it has got
  num_ok,           \* local num_ok
  num_fail,         \* local num_fail
  m_exit,           \* the value main returns, NoExit before
  \* ---- panorama batch driver (scripts/batch_panorama.py:39-123) ----
  p_pc,             \* "start" | "loop" | "pool" | "done" | "crashed" | "off"
  num_query,        \* args.num_query
  p_concurrency,    \* args.concurrency
  google_api_key,   \* args.google_api_key is set
  p_task,           \* per query: where its task is, and rst once it has one
  num_success,      \* local num_success
  progress,         \* progress_bar.n
  p_error           \* the exception that ended main, or None

cv_vars == <<cv_pc, geojson_area, cv_city, cv_country, optimise, max_attempts, radius,
             api_key_ok, attempt, last_metadata, latlng, effective_radius,
             cv_result, cv_error, cv_samples, cv_log>>
d_vars  == <<d_pc, d_city, d_country, boundary, city_shape, submitted, task, future, response,
             seen_geoms, candidates, CACHE, d_result, d_error>>
k_vars  == <<k_pc, k_city, k_country, k_city2, k_country2, k_key, k_key2>>
c_vars  == <<c_pc, DISK, c_last, c_prev>>
s_vars  == <<s_pc, s_fn, s_geom, s_count, s_max_tries, s_center_bias, s_tries, s_points,
             s_error, s_log>>
d_locals == <<d_pc, d_city, d_country, boundary, city_shape, submitted, task, future, response,
              seen_geoms, candidates, d_result, d_error>>
m_vars  == <<m_pc, cities, concurrency, m_task, num_ok, num_fail, m_exit>>
p_vars  == <<p_pc, num_query, p_concurrency, google_api_key, p_task, num_success,
             progress, p_error>>
vars    == <<cv_vars, d_vars, k_vars, c_vars, s_vars, m_vars, p_vars>>

----------------------------------------------------------------------------
\* Generic helpers

None    == [type |-> "None"]
NoneStr == <<"<None>">>
Absent  == "<absent>"          \* a key that is not in a dict (dict.get -> None)

SetMax(S) == CHOOSE m \in S : \A n \in S : n <= m
SetMin(S) == CHOOSE m \in S : \A n \in S : m <= n
Max2(a, b) == IF a >= b THEN a ELSE b

----------------------------------------------------------------------------
\* Geometry (shapely) on the cell grid

\* state: "ok", "unparsable" (shapely.geometry.shape raises) or "invalid"
\* (a predicate such as covers raises)
Geom(t, c, e) == [type |-> t, cells |-> c, enc |-> e, state |-> "ok"]
BadGeom(t, c, e, st) == [type |-> t, cells |-> c, enc |-> e, state |-> st]

IsAreal(g) == g.type \in {"Polygon", "MultiPolygon"}

\* shape.bounds = (minx, miny, maxx, maxy); a cell <<x, y>> spans [x,x+1]x[y,y+1]
Bounds(g) ==
  LET xs == {c[1] : c \in g.cells}
      ys == {c[2] : c \in g.cells}
      ext == IF IsAreal(g) THEN 1 ELSE 0
  IN <<SetMin(xs), SetMin(ys), SetMax(xs) + ext, SetMax(ys) + ext>>

\* shape.contains(pt) for a point drawn in the interior of cell c
Contains(g, c) == IsAreal(g) /\ c \in g.cells

\* shapely.ops.unary_union of a sequence of geometries
UnaryUnion(gs) ==
  [type |-> "MultiPolygon",
   cells |-> UNION {gs[i].cells : i \in {j \in 1..Len(gs) : IsAreal(gs[j])}},
   enc |-> 0, state |-> "ok"]

\* _to_shapely_geometry: Feature -> its geometry, FeatureCollection -> union
\* of its features' geometries, otherwise the geometry itself
ToShapelyGeometry(obj) ==
  IF obj.type = "Feature" THEN obj.geometry
  ELSE IF obj.type = "FeatureCollection"
       THEN UnaryUnion([i \in 1..Len(obj.features) |-> obj.features[i].geometry])
       ELSE obj

\* The cells of the bounding box: where _random_point_in_bounds can draw
BoxCells(g) ==
  LET b == Bounds(g)
  IN {<<x, y>> : x \in b[1]..(b[3] - 1), y \in b[2]..(b[4] - 1)}

\* random_point_in_polygon(geom) with the default max_tries and no center
\* bias: every outcome it can have.  A draw that passes contains() is
\* returned as (pt.y, pt.x); max_tries draws in a row that fall outside the
\* shape or on its boundary raise RuntimeError.
SamplingError == <<-1, -1>>
RandomPointOutcomes(area) ==
  LET shape == ToShapelyGeometry(area)
  IN {<<c[2], c[1]>> : c \in {b \in BoxCells(shape) : Contains(shape, b)}}
       \cup {SamplingError}

----------------------------------------------------------------------------
\* The place key

IsSpace(ch) == ch = " "

\* str.lower() on the model's alphabet
LowerChar(ch) == IF ch = "A" THEN "a" ELSE IF ch = "B" THEN "b" ELSE ch
Lower(s) == [i \in 1..Len(s) |-> LowerChar(s[i])]

\* str.strip(): drop leading and trailing whitespace
RECURSIVE LStrip(_)
LStrip(s) == IF s # <<>> /\ IsSpace(Head(s)) THEN LStrip(Tail(s)) ELSE s
RECURSIVE RStrip(_)
RStrip(s) ==
  IF s # <<>> /\ IsSpace(s[Len(s)]) THEN RStrip(SubSeq(s, 1, Len(s) - 1)) ELSE s
Strip(s) == RStrip(LStrip(s))

\* _city_cache_key(city, country)
CityCacheKey_CountryNotStripped(city, country) ==
  LET city_key    == Lower(Strip(city))
      country_key == Lower(IF country = NoneStr THEN <<>> ELSE country)
  IN IF country_key # <<>> THEN city_key \o <<",">> \o country_key ELSE city_key
CityCacheKey(city, country) ==
  LET city_key    == Lower(Strip(city))
      country_key == Lower(Strip(IF country = NoneStr THEN <<>> ELSE country))
  IN IF country_key # <<>> THEN city_key \o <<",">> \o country_key ELSE city_key

----------------------------------------------------------------------------
\* The Coverage Search Loop: find_streetview_random

MaxAttempts == 3     \* largest max_attempts a request is given

MinRadius    == 50       \* _estimate_radius_from_area: max(50, ...)
GlobalRadius == 100000   \* find_streetview_random: radius or 100000

Err(kind, msg, status) ==
  [type |-> "Error", kind |-> kind, msg |-> msg, status |-> status]

\* The imagery-metadata responses: a status, and the capture date under
\* "date" or "image_date" (present with a value, present but empty, absent).
Meta(st, d, idt) == [status |-> st, date |-> d, image_date |-> idt]
MetadataResponses ==
  { Meta("OK", "2019-06", Absent), Meta("OK", Absent, "2019-06"),
    Meta("OK", Absent, Absent), Meta("OK", "", Absent),
    Meta("ZERO_RESULTS", Absent, Absent), Meta("NOT_FOUND", Absent, Absent),
    Meta("UNKNOWN_ERROR", Absent, Absent) }

\* Python truthiness of metadata.get(key)
Truthy(v) == v # Absent /\ v # ""

\* is_metadata_acceptable(metadata, optimise)
IsMetadataAcceptable_IgnoreOptimise(m, opt) == m # None /\ m.status = "OK"
IsMetadataAcceptable(m, opt) ==
  IF m = None \/ m.status # "OK" THEN FALSE
  ELSE IF opt /\ ~Truthy(m.date) /\ ~Truthy(m.image_date) THEN FALSE
  ELSE TRUE

\* _estimate_radius_from_area: max(50, int(max(dx, dy) * 111.0 * 10)), with
\* dx, dy in degrees; one cell is 1/50 degree
EstimateRadiusFromArea(area) ==
  LET b  == Bounds(ToShapelyGeometry(area))
      dx == b[3] - b[1]
      dy == b[4] - b[2]
  IN Max2(MinRadius, (Max2(dx, dy) * 111 * 10) \div 50)

\* radius or <fallback>
NoRadius == [given |-> FALSE, val |-> 0]
Given(r) == [given |-> TRUE, val |-> r]
RadiusOr_Derived(r, fallback) == fallback
RadiusOr(r, fallback) == IF r.given /\ r.val # 0 THEN r.val ELSE fallback

\* Areas a caller passes as geojson_area, and areas fetch_city_geojson returns
Feature(g, props) == [type |-> "Feature", geometry |-> g, properties |-> props]
FeatureCollection(fs) == [type |-> "FeatureCollection", features |-> fs]
Properties(name, t, ot, id, cl, kw) ==
  [display_name |-> name, type |-> t, osm_type |-> ot, osm_id |-> id,
   class |-> cl, keyword |-> kw]
WideArea  == Geom("Polygon", {<<0, 0>>, <<1, 0>>, <<2, 0>>}, 0)
SmallArea == Geom("Polygon", {<<0, 1>>}, 0)
PropsP == Properties("p", "suburb", "relation", 7, "place", 1)
PropsQ == Properties("q", "suburb", "way", 8, "place", 2)
AreaInputs == {WideArea, Feature(SmallArea, PropsP)}
FetchedAreas == {<<Feature(WideArea, PropsQ), Feature(SmallArea, PropsP)>>}
GlobalPoints == {<<0, 0>>, <<1, 2>>}
Cities == {NoneStr, <<>>, <<"a">>}
Radii  == {NoRadius, Given(0), Given(75)}

CovInit ==
  /\ cv_pc = "call"
  /\ geojson_area \in AreaInputs \cup {None}
  /\ cv_city \in Cities
  /\ cv_country = NoneStr
  /\ optimise \in BOOLEAN
  /\ max_attempts \in (-1)..MaxAttempts
  /\ radius \in Radii
  /\ api_key_ok \in BOOLEAN
  /\ attempt = 0
  /\ last_metadata = None
  /\ latlng = <<0, 0>>
  /\ effective_radius = 0
  /\ cv_result = None
  /\ cv_error = None
  /\ cv_samples = 0
  /\ cv_log = <<>>

CovOff ==
  /\ cv_pc = "off"
  /\ geojson_area = None /\ cv_city = NoneStr /\ cv_country = NoneStr
  /\ optimise = TRUE /\ max_attempts = 0 /\ radius = NoRadius
  /\ api_key_ok = TRUE /\ attempt = 0 /\ last_metadata = None
  /\ latlng = <<0, 0>> /\ effective_radius = 0
  /\ cv_result = None /\ cv_error = None /\ cv_samples = 0 /\ cv_log = <<>>

\* line 80: while attempt < max_attempts
LoopTest_OffByOne(a, max) == a <= max
LoopTest_AtLeastOnce(a, max) == a < max \/ a = 0
LoopTest(a, max) == a < max

\* line 90: last_metadata = metadata
RecordLast_KeepFirst(prev, m) == IF prev = None THEN m ELSE prev
RecordLast(prev, m) == m

\* lines 74-78: resolve the city into an area, then attempt = 0.
\* fetch_city_geojson returns the cached list on a hit, stores and returns a
\* ranked list on a miss, or raises.
CovEnter ==
  /\ cv_pc = "call"
  /\ IF geojson_area = None /\ cv_city # NoneStr /\ cv_city # <<>>
     THEN LET key == CityCacheKey(cv_city, cv_country)
          IN \/ /\ cv_error' \in {Err("ValueError", "fetch_city_geojson", "None"),
                                  Err("RequestException", "fetch_city_geojson", "None")}
                /\ cv_pc' = "raised"
                /\ UNCHANGED <<geojson_area, CACHE>>
             \/ /\ key \in DOMAIN CACHE
                /\ geojson_area' = FeatureCollection(CACHE[key])
                /\ cv_pc' = "loop"
                /\ UNCHANGED <<cv_error, CACHE>>
             \/ /\ key \notin DOMAIN CACHE
                /\ \E fs \in FetchedAreas :
                     /\ geojson_area' = FeatureCollection(fs)
                     /\ CACHE' = (key :> fs) @@ CACHE
                /\ cv_pc' = "loop"
                /\ UNCHANGED cv_error
     ELSE /\ cv_pc' = "loop"
          /\ UNCHANGED <<geojson_area, cv_error, CACHE>>
  /\ attempt' = 0
  /\ last_metadata' = None
  /\ UNCHANGED <<cv_city, cv_country, optimise, max_attempts, radius, api_key_ok,
                 latlng, effective_radius, cv_result, cv_samples, cv_log>>
  /\ UNCHANGED <<d_pc, d_city, d_country, boundary, city_shape, submitted, task, future,
                 response, seen_geoms, candidates, d_result, d_error>>
  /\ UNCHANGED <<k_vars, c_vars, s_vars, m_vars, p_vars>>

\* lines 80-87: the loop test passes; attempt += 1; sample a point and choose
\* the effective radius
CovSample ==
  /\ cv_pc = "loop"
  /\ LoopTest(attempt, max_attempts)
  /\ attempt' = attempt + 1
  /\ IF geojson_area # None
     THEN \E p \in RandomPointOutcomes(geojson_area) :
            IF p = SamplingError
            THEN /\ cv_error' = Err("RuntimeError", "sampling", "None")
                 /\ cv_pc' = "raised"
                 /\ UNCHANGED <<latlng, effective_radius, cv_samples>>
            ELSE /\ latlng' = p
                 /\ effective_radius' =
                      RadiusOr(radius, EstimateRadiusFromArea(geojson_area))
                 /\ cv_samples' = cv_samples + 1
                 /\ cv_pc' = "query"
                 /\ UNCHANGED cv_error
     ELSE \E p \in GlobalPoints :
            /\ latlng' = p
            /\ effective_radius' = RadiusOr(radius, GlobalRadius)
            /\ cv_samples' = cv_samples + 1
            /\ cv_pc' = "query"
            /\ UNCHANGED cv_error
  /\ UNCHANGED <<geojson_area, cv_city, cv_country, optimise, max_attempts, radius,
                 api_key_ok, last_metadata, cv_result, cv_log>>
  /\ UNCHANGED <<d_vars, k_vars, c_vars, s_vars, m_vars, p_vars>>

\* The dict returned on acceptance (lines 92-98)
CovReturnValue_ZeroBased(p, r, m, n) ==
  [type |-> "Result", latitude |-> p[1], longitude |-> p[2], radius |-> r,
   metadata |-> m, attempts |-> n - 1]
CovReturnValue(p, r, m, n) ==
  [type |-> "Result", latitude |-> p[1], longitude |-> p[2], radius |-> r,
   metadata |-> m, attempts |-> n]

CovQuery_FailureIsRejection ==
  /\ cv_pc = "query"
  /\ \/ /\ cv_pc' = "loop"
        /\ UNCHANGED <<last_metadata, cv_result, cv_log>>
     \/ /\ api_key_ok
        /\ \E m \in MetadataResponses :
             /\ last_metadata' = RecordLast(last_metadata, m)
             /\ cv_log' = Append(cv_log, m)
             /\ IF IsMetadataAcceptable(m, optimise)
                THEN /\ cv_result' = CovReturnValue(latlng, effective_radius, m, attempt)
                     /\ cv_pc' = "returned"
                ELSE /\ cv_pc' = "loop"
                     /\ UNCHANGED cv_result
  /\ UNCHANGED cv_error
  /\ UNCHANGED <<geojson_area, cv_city, cv_country, optimise, max_attempts, radius,
                 api_key_ok, attempt, latlng, effective_radius, cv_samples>>
  /\ UNCHANGED <<d_vars, k_vars, c_vars, s_vars, m_vars, p_vars>>

\* lines 89-98: query the metadata at the sampled point; accept or go round.
\* street_view_metadata raises StreetViewError without an API key and lets a
\* transport error (raise_for_status) through.
CovQuery ==
  /\ cv_pc = "query"
  /\ \/ /\ ~api_key_ok
        /\ cv_error' = Err("StreetViewError", "GOOGLE_MAPS_API_KEY not configured", "None")
        /\ cv_pc' = "raised"
        /\ UNCHANGED <<last_metadata, cv_result, cv_log>>
     \/ /\ api_key_ok
        /\ cv_error' = Err("RequestException", "transport", "None")
        /\ cv_pc' = "raised"
        /\ UNCHANGED <<last_metadata, cv_result, cv_log>>
     \/ /\ api_key_ok
        /\ \E m \in MetadataResponses :
             /\ last_metadata' = RecordLast(last_metadata, m)
             /\ cv_log' = Append(cv_log, m)
             /\ IF IsMetadataAcceptable(m, optimise)
                THEN /\ cv_result' = CovReturnValue(latlng, effective_radius, m, attempt)
                     /\ cv_pc' = "returned"
                ELSE /\ cv_pc' = "loop"
                     /\ UNCHANGED cv_result
        /\ UNCHANGED cv_error
  /\ UNCHANGED <<geojson_area, cv_city, cv_country, optimise, max_attempts, radius,
                 api_key_ok, attempt, latlng, effective_radius, cv_samples>>
  /\ UNCHANGED <<d_vars, k_vars, c_vars, s_vars, m_vars, p_vars>>

\* line 100: the loop test fails; raise StreetViewError carrying
\* last_metadata and last_metadata.get('status')
CovExhaust ==
  /\ cv_pc = "loop"
  /\ ~LoopTest(attempt, max_attempts)
  /\ cv_error' = Err("StreetViewError", "No Street View found",
                     IF last_metadata = None THEN "None" ELSE last_metadata.status)
  /\ cv_pc' = "raised"
  /\ UNCHANGED <<geojson_area, cv_city, cv_country, optimise, max_attempts, radius,
                 api_key_ok, attempt, last_metadata, latlng, effective_radius,
                 cv_result, cv_samples, cv_log>>
  /\ UNCHANGED <<d_vars, k_vars, c_vars, s_vars, m_vars, p_vars>>

CovNext == CovEnter \/ CovSample \/ CovQuery \/ CovExhaust

----------------------------------------------------------------------------
\* Sub-Area Discovery: fetch_city_geojson

NSyn       == 3   \* length of the synonym list (39 in the source)
MaxWorkers == 2   \* MAX_WORKERS (10 in the source), scaled with NSyn
TopN       == 2   \* the cut after ranking (500 in the source), scaled

Synonyms == 1..NSyn

\* city_shape.covers(small_geom): every point of small_geom is in city_shape,
\* its boundary included
Covers(a, b) ==
  IF IsAreal(b) THEN IsAreal(a) /\ b.cells \subseteq a.cells
  ELSE \A c \in b.cells : \E d \in a.cells : c = d

\* small_geom.area
Area(g) == IF IsAreal(g) THEN Cardinality(g.cells) ELSE 0

\* small_geom.wkb_hex: the WKB of type and coordinates, in the order written
WkbHex(g) == <<g.type, g.enc, g.cells>>

\* The geocoder's place objects
Item(gj, name, id) ==
  [geojson |-> gj, display_name |-> name, type |-> "suburb",
   osm_type |-> "relation", osm_id |-> id, class |-> "place"]

CityCells == {<<0, 0>>, <<1, 0>>, <<0, 1>>, <<1, 1>>}
CityPoly  == Geom("Polygon", CityCells, 0)
CityPoint == Geom("Point", {<<0, 0>>}, 0)

I1    == Item(Geom("Polygon", {<<0, 0>>}, 0), "n1", 1)
I2    == Item(Geom("Polygon", {<<0, 0>>, <<1, 0>>}, 0), "n2", 2)
I2x   == Item(Geom("Polygon", {<<0, 0>>, <<1, 0>>}, 0), "n2x", 12)
I2e   == Item(Geom("Polygon", {<<0, 0>>, <<1, 0>>}, 1), "n2e", 2)
I3    == Item(Geom("Polygon", {<<0, 1>>, <<1, 1>>}, 0), "n3", 3)
IM    == Item(Geom("MultiPolygon", {<<0, 0>>, <<1, 1>>, <<0, 1>>}, 0), "nm", 4)
ICity == Item(Geom("Polygon", CityCells, 0), "ncity", 5)
IOut  == Item(Geom("Polygon", {<<1, 0>>, <<2, 0>>}, 0), "nout", 6)
IPt   == Item(Geom("Point", {<<0, 0>>}, 0), "npt", 7)
ILine == Item(Geom("LineString", {<<0, 0>>, <<1, 0>>}, 0), "nline", 8)
INone == Item(None, "nnone", 9)
IBad  == Item(BadGeom("Polygon", {<<0, 0>>}, 0, "unparsable"), "nbad", 10)
IInv  == Item(BadGeom("Polygon", {<<1, 1>>}, 0, "invalid"), "ninv", 11)

\* What one geocoder request can give: a transport/HTTP error (caught in
\* the task, lines 143-145), a body that makes the task raise another
\* exception after its first place object (caught at fut.result(), lines
\* 181-185), or a list of place objects
Response(kind, items) == [kind |-> kind, items |-> items]
KeywordResponses ==
  { Response("RequestException", <<>>),
    Response("Exception", <<I1>>),
    Response("items", <<>>),
    Response("items", <<I2, I1>>),
    Response("items", <<I2x, IOut>>),
    Response("items", <<I3, IPt, IBad>>),
    Response("items", <<IM, I2e, INone>>),
    Response("items", <<ICity, IInv, ILine>>) }

BoundaryResponses ==
  { Response("RequestException", <<>>),
    Response("items", <<>>),
    Response("items", <<INone>>),
    Response("items", <<Item(CityPoly, "city", 100)>>),
    Response("items", <<Item(CityPoint, "city", 101)>>) }

\* _fetch_city_full_geojson(city, country): the Feature of the top result, or
\* the exception raised
FetchCityFull(city, resp) ==
  IF city = <<>> THEN Err("ValueError", "city must be provided", "None")
  ELSE IF resp.kind # "items" THEN Err("RequestException", "transport", "None")
  ELSE IF resp.items = <<>> THEN Err("ValueError", "No results for city query", "None")
  ELSE IF resp.items[1].geojson = None
       THEN Err("ValueError", "City result does not include polygon geojson", "None")
  ELSE LET top == resp.items[1]
       IN Feature(top.geojson,
                  Properties(top.display_name, top.type, top.osm_type,
                             top.osm_id, top.class, 0))

\* _fetch_for_syn, lines 147-172: the filter applied to one place object
Qualifies_NoCovers(shape, it) ==
  /\ it.geojson # None
  /\ it.geojson.type \in {"Polygon", "MultiPolygon"}
  /\ it.geojson.state # "unparsable"
Qualifies_PolygonOnly(shape, it) ==
  /\ it.geojson # None
  /\ it.geojson.type = "Polygon"
  /\ it.geojson.state # "unparsable"
  /\ it.geojson.state # "invalid"
  /\ Covers(shape, it.geojson)
Qualifies(shape, it) ==
  /\ it.geojson # None
  /\ it.geojson.type \in {"Polygon", "MultiPolygon"}
  /\ it.geojson.state # "unparsable"
  /\ it.geojson.state # "invalid"
  /\ Covers(shape, it.geojson)

\* _fetch_for_syn, lines 161-172: the (small_geom, feature) pair
ResultPair(it, syn) ==
  <<it.geojson,
    Feature(it.geojson,
            Properties(it.display_name, it.type, it.osm_type, it.osm_id,
                       it.class, syn))>>

\* _fetch_for_syn(syn): what the future holds when the task ends
FetchForSyn(shape, syn, resp) ==
  IF resp.kind = "RequestException" THEN [exc |-> FALSE, results |-> <<>>]
  ELSE IF resp.kind = "Exception" THEN [exc |-> TRUE, results |-> <<>>]
  ELSE LET kept == SelectSeq(resp.items, LAMBDA it : Qualifies(shape, it))
       IN [exc |-> FALSE,
           results |-> [i \in 1..Len(kept) |-> ResultPair(kept[i], syn)]]

\* lines 194-206: merge one task's results into (seen_geoms, candidates)
RECURSIVE MergeLocal(_, _, _)
MergeLocal(results, seen, cands) ==
  IF results = <<>> THEN <<seen, cands>>
  ELSE LET geom_key == WkbHex(Head(results)[1])
       IN IF geom_key \in seen
          THEN MergeLocal(Tail(results), seen, cands)
          ELSE MergeLocal(Tail(results), seen \cup {geom_key},
                          Append(cands, <<Area(Head(results)[1]), Head(results)[2]>>))
MergeResults_PerKeyword(results, seen, cands) == MergeLocal(results, {}, cands)
RECURSIVE MergeResults(_, _, _)
MergeResults(results, seen, cands) ==
  IF results = <<>> THEN <<seen, cands>>
  ELSE LET small_geom == Head(results)[1]
           feature    == Head(results)[2]
           geom_key   == WkbHex(small_geom)
       IN IF geom_key \in seen
          THEN MergeResults(Tail(results), seen, cands)
          ELSE MergeResults(Tail(results), seen \cup {geom_key},
                            Append(cands, <<Area(small_geom), feature>>))

\* sorted(candidates, key=area, reverse=True): stable, equal areas keep
\* their order in candidates
RECURSIVE InsertAsc(_, _)
InsertAsc(sorted, x) ==
  IF sorted = <<>> THEN <<x>>
  ELSE IF Head(sorted)[1] <= x[1] THEN <<Head(sorted)>> \o InsertAsc(Tail(sorted), x)
  ELSE <<x>> \o sorted
RECURSIVE InsertDesc(_, _)
InsertDesc(sorted, x) ==
  IF sorted = <<>> THEN <<x>>
  ELSE IF Head(sorted)[1] >= x[1] THEN <<Head(sorted)>> \o InsertDesc(Tail(sorted), x)
  ELSE <<x>> \o sorted
RECURSIVE SortedDesc(_)
SortedDesc(cands) ==
  IF cands = <<>> THEN <<>>
  ELSE InsertDesc(SortedDesc(SubSeq(cands, 1, Len(cands) - 1)), cands[Len(cands)])

\* line 222: top = [f for _, f in sorted(...)[:500]]
TopFeatures(cands) ==
  LET ranked == SortedDesc(cands)
      n == IF Len(ranked) < TopN THEN Len(ranked) ELSE TopN
  IN [i \in 1..n |-> ranked[i][2]]

NoFuture   == [exc |-> FALSE, results |-> <<>>]
NoResponse == Response("none", <<>>)

DCities    == {<<"a">>, <<"A">>, <<>>}
DCountries == {NoneStr}

DisInit ==
  /\ d_pc = "idle"
  /\ d_city = NoneStr /\ d_country = NoneStr
  /\ boundary = NoResponse
  /\ city_shape = None
  /\ submitted = 0
  /\ task = [k \in Synonyms |-> "new"]
  /\ future = [k \in Synonyms |-> NoFuture]
  /\ response = [k \in Synonyms |-> NoResponse]
  /\ seen_geoms = {}
  /\ candidates = <<>>
  /\ CACHE = <<>>
  /\ d_result = <<>>
  /\ d_error = None

\* lines 96-97: cached = _CITY_SMALL_POLYGONS_CACHE.get(cache_key);
\* if cached is not None
CacheHit_Never(cache, cache_key) == FALSE
CacheHit(cache, cache_key) == cache_key \in DOMAIN cache

\* lines 87-123: resolve the boundary, look the key up in the cache, and on a
\* miss start with empty candidates and seen_geoms
DisCall ==
  /\ d_pc \in {"idle", "returned", "raised"}
  /\ \E city \in DCities, country \in DCountries, resp \in BoundaryResponses :
       LET full_feature == FetchCityFull(city, resp)
           cache_key    == CityCacheKey(city, country)
       IN /\ d_city' = city
          /\ d_country' = country
          /\ boundary' = IF city = <<>> THEN NoResponse ELSE resp
          /\ IF full_feature.type = "Error"
             THEN /\ d_error' = full_feature
                  /\ d_pc' = "raised"
                  /\ city_shape' = None
                  /\ d_result' = <<>>
             ELSE /\ city_shape' = ToShapelyGeometry(full_feature)
                  /\ d_error' = None
                  /\ IF CacheHit(CACHE, cache_key)
                     THEN /\ d_result' = CACHE[cache_key]
                          /\ d_pc' = "returned"
                     ELSE /\ d_result' = <<>>
                          /\ d_pc' = "submit"
  /\ submitted' = 0
  /\ task' = [k \in Synonyms |-> "new"]
  /\ future' = [k \in Synonyms |-> NoFuture]
  /\ response' = [k \in Synonyms |-> NoResponse]
  /\ seen_geoms' = {}
  /\ candidates' = <<>>
  /\ UNCHANGED CACHE
  /\ UNCHANGED <<cv_vars, k_vars, c_vars, s_vars, m_vars, p_vars>>

\* lines 178-179: executor.submit(_fetch_for_syn, syn) for the next synonym
DisSubmit ==
  /\ d_pc = "submit"
  /\ submitted < NSyn
  /\ submitted' = submitted + 1
  /\ task' = [task EXCEPT ![submitted + 1] = "queued"]
  /\ d_pc' = IF submitted + 1 = NSyn THEN "collect" ELSE "submit"
  /\ UNCHANGED <<d_city, d_country, boundary, city_shape, future, response, seen_geoms,
                 candidates, CACHE, d_result, d_error>>
  /\ UNCHANGED <<cv_vars, k_vars, c_vars, s_vars, m_vars, p_vars>>

Busy == {k \in Synonyms : task[k] \in {"sleeping", "requesting"}}

\* an executor that starts every submitted task at once
TaskStart_NoLimit(k) ==
  /\ d_pc \in {"submit", "collect"}
  /\ task[k] = "queued"
  /\ task' = [task EXCEPT ![k] = "sleeping"]
  /\ UNCHANGED <<d_pc, d_city, d_country, boundary, city_shape, submitted, future, response,
                 seen_geoms, candidates, CACHE, d_result, d_error>>
  /\ UNCHANGED <<cv_vars, k_vars, c_vars, s_vars, m_vars, p_vars>>

\* ThreadPoolExecutor(max_workers=MAX_WORKERS): a free worker takes the
\* oldest queued task, which starts with its jitter sleep (line 127)
TaskStart(k) ==
  /\ d_pc \in {"submit", "collect"}
  /\ task[k] = "queued"
  /\ \A j \in Synonyms : task[j] = "queued" => k <= j
  /\ Cardinality(Busy) < MaxWorkers
  /\ task' = [task EXCEPT ![k] = "sleeping"]
  /\ UNCHANGED <<d_pc, d_city, d_country, boundary, city_shape, submitted, future, response,
                 seen_geoms, candidates, CACHE, d_result, d_error>>
  /\ UNCHANGED <<cv_vars, k_vars, c_vars, s_vars, m_vars, p_vars>>

\* lines 128-140: the sleep is over, the request is sent
TaskRequest(k) ==
  /\ task[k] = "sleeping"
  /\ task' = [task EXCEPT ![k] = "requesting"]
  /\ UNCHANGED <<d_pc, d_city, d_country, boundary, city_shape, submitted, future, response,
                 seen_geoms, candidates, CACHE, d_result, d_error>>
  /\ UNCHANGED <<cv_vars, k_vars, c_vars, s_vars, m_vars, p_vars>>

\* a worker that merges its own results into seen_geoms and candidates
\* instead of handing them over in its future
TaskFinish_SharedWrite(k) ==
  /\ task[k] = "requesting"
  /\ \E resp \in KeywordResponses :
       LET fut    == FetchForSyn(city_shape, k, resp)
           merged == MergeResults(fut.results, seen_geoms, candidates)
       IN /\ response' = [response EXCEPT ![k] = resp]
          /\ future' = [future EXCEPT ![k] = [exc |-> fut.exc, results |-> <<>>]]
          /\ seen_geoms' = merged[1]
          /\ candidates' = merged[2]
  /\ task' = [task EXCEPT ![k] = "done"]
  /\ UNCHANGED <<d_pc, d_city, d_country, boundary, city_shape, submitted,
                 CACHE, d_result, d_error>>
  /\ UNCHANGED <<cv_vars, k_vars, c_vars, s_vars, m_vars, p_vars>>

\* lines 140-173: the response arrives (or the request fails or times out)
\* and the task returns its own results list
TaskFinish(k) ==
  /\ task[k] = "requesting"
  /\ \E resp \in KeywordResponses :
       /\ response' = [response EXCEPT ![k] = resp]
       /\ future' = [future EXCEPT ![k] = FetchForSyn(city_shape, k, resp)]
  /\ task' = [task EXCEPT ![k] = "done"]
  /\ UNCHANGED <<d_pc, d_city, d_country, boundary, city_shape, submitted,
                 seen_geoms, candidates, CACHE, d_result, d_error>>
  /\ UNCHANGED <<cv_vars, k_vars, c_vars, s_vars, m_vars, p_vars>>

\* lines 180-185 without the try/except around fut.result(): the task's
\* exception ends the call
DisCollect_Abort(k) ==
  /\ d_pc = "collect"
  /\ task[k] = "done"
  /\ task' = [task EXCEPT ![k] = "collected"]
  /\ IF future[k].exc
     THEN /\ d_pc' = "raised"
          /\ d_error' = Err("Exception", "keyword task failed", "None")
          /\ UNCHANGED <<seen_geoms, candidates>>
     ELSE LET merged == MergeResults(future[k].results, seen_geoms, candidates)
          IN /\ seen_geoms' = merged[1]
             /\ candidates' = merged[2]
             /\ UNCHANGED <<d_pc, d_error>>
  /\ UNCHANGED <<d_city, d_country, boundary, city_shape, submitted, future, response,
                 CACHE, d_result>>
  /\ UNCHANGED <<cv_vars, k_vars, c_vars, s_vars, m_vars, p_vars>>

\* lines 180-206: as_completed hands over a finished future; fut.result()
\* raising is logged and skipped, otherwise its results are merged
DisCollect(k) ==
  /\ d_pc = "collect"
  /\ task[k] = "done"
  /\ task' = [task EXCEPT ![k] = "collected"]
  /\ IF future[k].exc
     THEN UNCHANGED <<seen_geoms, candidates>>
     ELSE LET merged == MergeResults(future[k].results, seen_geoms, candidates)
          IN /\ seen_geoms' = merged[1]
             /\ candidates' = merged[2]
  /\ UNCHANGED <<d_pc, d_city, d_country, boundary, city_shape, submitted, future, response,
                 CACHE, d_result, d_error>>
  /\ UNCHANGED <<cv_vars, k_vars, c_vars, s_vars, m_vars, p_vars>>

\* lines 211-227 with the commented-out fallback of lines 214-218 active
DisRank_Fallback ==
  /\ d_pc = "collect"
  /\ \A k \in Synonyms : task[k] = "collected"
  /\ LET top == IF candidates = <<>>
                THEN <<Feature(city_shape, Properties("city_full", "", "", 0, "", 0))>>
                ELSE TopFeatures(candidates)
     IN /\ CACHE' = (CityCacheKey(d_city, d_country) :> top) @@ CACHE
        /\ d_result' = top
        /\ d_pc' = "returned"
        /\ UNCHANGED d_error
  /\ UNCHANGED <<d_city, d_country, boundary, city_shape, submitted, task, future, response,
                 seen_geoms, candidates>>
  /\ UNCHANGED <<cv_vars, k_vars, c_vars, s_vars, m_vars, p_vars>>

\* lines 211-227 reached as soon as one future has been handled, the tasks
\* still running being given up
DisRank_Early ==
  /\ d_pc = "collect"
  /\ \E k \in Synonyms : task[k] = "collected"
  /\ IF candidates = <<>>
     THEN /\ d_error' = Err("ValueError", "No candidate small polygons found", "None")
          /\ d_pc' = "raised"
          /\ UNCHANGED <<CACHE, d_result>>
     ELSE LET top == TopFeatures(candidates)
          IN /\ CACHE' = (CityCacheKey(d_city, d_country) :> top) @@ CACHE
             /\ d_result' = top
             /\ d_pc' = "returned"
             /\ UNCHANGED d_error
  /\ task' = [k \in Synonyms |-> "collected"]
  /\ UNCHANGED <<d_city, d_country, boundary, city_shape, submitted, future, response,
                 seen_geoms, candidates>>
  /\ UNCHANGED <<cv_vars, k_vars, c_vars, s_vars, m_vars, p_vars>>

\* lines 211-227: every future has been handled; no candidates raises
\* ValueError, otherwise rank, cut, store in the cache and return
DisRank ==
  /\ d_pc = "collect"
  /\ \A k \in Synonyms : task[k] = "collected"
  /\ IF candidates = <<>>
     THEN /\ d_error' = Err("ValueError", "No candidate small polygons found", "None")
          /\ d_pc' = "raised"
          /\ UNCHANGED <<CACHE, d_result>>
     ELSE LET top == TopFeatures(candidates)
          IN /\ CACHE' = (CityCacheKey(d_city, d_country) :> top) @@ CACHE
             /\ d_result' = top
             /\ d_pc' = "returned"
             /\ UNCHANGED d_error
  /\ UNCHANGED <<d_city, d_country, boundary, city_shape, submitted, task, future, response,
                 seen_geoms, candidates>>
  /\ UNCHANGED <<cv_vars, k_vars, c_vars, s_vars, m_vars, p_vars>>

DisNext ==
  \/ DisCall
  \/ DisSubmit
  \/ \E k \in Synonyms : TaskStart(k)
  \/ \E k \in Synonyms : TaskRequest(k)
  \/ \E k \in Synonyms : TaskFinish(k)
  \/ \E k \in Synonyms : DisCollect(k)
  \/ DisRank

----------------------------------------------------------------------------
\* Place-key requests: two requests for the same place, the second written
\* with other casing and surrounding whitespace, each mapped to its cache key

MaxLen == 4    \* longest city or country string of a request

KeyCities    == {<<"a">>, <<"a", "B">>, <<"a", " ", "b">>, <<"a", ",", "b">>}
KeyCountries == {NoneStr, <<>>, <<"b">>, <<"A", " ", "b">>}

SwapCase(ch) ==
  IF ch = "a" THEN "A" ELSE IF ch = "A" THEN "a"
  ELSE IF ch = "b" THEN "B" ELSE IF ch = "B" THEN "b" ELSE ch

KeyInit ==
  /\ k_pc = "req"
  /\ k_city \in KeyCities
  /\ k_country \in KeyCountries
  /\ k_city2 = k_city
  /\ k_country2 = k_country
  /\ k_key = NoneStr
  /\ k_key2 = NoneStr

\* two requests of their own: any city and country each
KeyPairInit ==
  /\ k_pc = "req"
  /\ k_city \in KeyCities /\ k_country \in KeyCountries
  /\ k_city2 \in KeyCities /\ k_country2 \in KeyCountries
  /\ k_key = NoneStr
  /\ k_key2 = NoneStr

\* The second request gets a leading or trailing blank in its city
KeyPadCity ==
  /\ k_pc = "req"
  /\ Len(k_city2) < MaxLen
  /\ k_city2' \in {<<" ">> \o k_city2, k_city2 \o <<" ">>}
  /\ UNCHANGED <<k_pc, k_city, k_country, k_country2, k_key, k_key2>>
  /\ UNCHANGED <<cv_vars, d_vars, c_vars, s_vars, m_vars, p_vars>>

\* ... or in its country (an absent country stays absent)
KeyPadCountry ==
  /\ k_pc = "req"
  /\ k_country2 # NoneStr
  /\ Len(k_country2) < MaxLen
  /\ k_country2' \in {<<" ">> \o k_country2, k_country2 \o <<" ">>}
  /\ UNCHANGED <<k_pc, k_city, k_country, k_city2, k_key, k_key2>>
  /\ UNCHANGED <<cv_vars, d_vars, c_vars, s_vars, m_vars, p_vars>>

\* The second request changes the case of one letter
KeyRecase ==
  /\ k_pc = "req"
  /\ \/ /\ \E i \in 1..Len(k_city2) :
             k_city2' = [k_city2 EXCEPT ![i] = SwapCase(k_city2[i])]
        /\ UNCHANGED k_country2
     \/ /\ k_country2 # NoneStr
        /\ \E i \in 1..Len(k_country2) :
             k_country2' = [k_country2 EXCEPT ![i] = SwapCase(k_country2[i])]
        /\ UNCHANGED k_city2
  /\ UNCHANGED <<k_pc, k_city, k_country, k_key, k_key2>>
  /\ UNCHANGED <<cv_vars, d_vars, c_vars, s_vars, m_vars, p_vars>>

\* The second request gives an empty country instead of none, or none
\* instead of an empty one
KeyAbsentCountry ==
  /\ k_pc = "req"
  /\ \/ k_country2 = NoneStr /\ k_country2' = <<>>
     \/ k_country2 = <<>> /\ k_country2' = NoneStr
  /\ UNCHANGED <<k_pc, k_city, k_country, k_city2, k_key, k_key2>>
  /\ UNCHANGED <<cv_vars, d_vars, c_vars, s_vars, m_vars, p_vars>>

\* Both requests reach line 96: cache_key = _city_cache_key(city, country)
KeyCompute ==
  /\ k_pc = "req"
  /\ k_key' = CityCacheKey(k_city, k_country)
  /\ k_key2' = CityCacheKey(k_city2, k_country2)
  /\ k_pc' = "done"
  /\ UNCHANGED <<k_city, k_country, k_city2, k_country2>>
  /\ UNCHANGED <<cv_vars, d_vars, c_vars, s_vars, m_vars, p_vars>>

KeyNext == KeyPadCity \/ KeyPadCountry \/ KeyRecase \/ KeyAbsentCountry \/ KeyCompute

----------------------------------------------------------------------------
\* Cache files: save_city_small_polygons_cache, load_city_small_polygons_cache
\* and load_all_city_caches_from_dir (geo.py:230-312)

\* a file of the cache directory: os.path.join(cache_dir, f"{cache_key}.geojson")
FileName(stem, ext) == [stem |-> stem, ext |-> ext]
CacheFile(cache_key) == FileName(cache_key, ".geojson")

\* what a file holds: a JSON document with its "type" and "features" members,
\* or text that json.load rejects
JsonDoc(t, entries) == [type |-> t, features |-> entries]
NotJson == JsonDoc("<not json>", <<>>)

\* an entry of "features": a JSON object with its members, or a value that is
\* not an object (null, a string, a number), on which feat.get raises
JsonObject(g, props) == [type |-> "Feature", geometry |-> g, properties |-> props]
NotAnObject == [type |-> "<not an object>"]
NoMember   == [type |-> "<no member>"]   \* a member the object does not have
EmptyProps == [type |-> "<empty dict>"]  \* {}

\* json.dump(fc, f): the FeatureCollection's members, each feature written
\* with its geometry and properties
JsonDump(fc) ==
  JsonDoc(fc.type,
          [i \in 1..Len(fc.features) |->
             JsonObject(fc.features[i].geometry, fc.features[i].properties)])

\* geojson.Feature(geometry=feat.get("geometry"),
\*                 properties=feat.get("properties", {})); the constructor
\* keeps a falsy geometry as None and falsy properties as {}
IsObject(e) == e # NotAnObject
FeatureOfEntry_GeometryOnly(e) ==
  Feature(IF e.geometry = NoMember THEN None ELSE e.geometry, EmptyProps)
FeatureOfEntry(e) ==
  Feature(IF e.geometry = NoMember THEN None ELSE e.geometry,
          IF e.properties \in {NoMember, None} THEN EmptyProps ELSE e.properties)

\* lines 260-266 and 294-299: the entries that can be normalised, in file
\* order; an entry that raises is skipped
RECURSIVE FeaturesOfEntries(_)
FeaturesOfEntries(entries) ==
  IF entries = <<>> THEN <<>>
  ELSE IF IsObject(Head(entries))
       THEN <<FeatureOfEntry(Head(entries))>> \o FeaturesOfEntries(Tail(entries))
       ELSE FeaturesOfEntries(Tail(entries))

\* lines 256-271: the value a file puts in the cache, <<>> when it puts none
IsFeatureCollection(data) == data.type = "FeatureCollection"
FeaturesOfFile(data) ==
  IF IsFeatureCollection(data) THEN FeaturesOfEntries(data.features) ELSE <<>>

\* the lists a caller saves, the files somebody else left in the directory
F1 == Feature(SmallArea, PropsP)
F2 == Feature(WideArea, PropsQ)
F0 == Feature(None, EmptyProps)
CacheLists == {<<>>, <<F1, F2>>, <<F2, F0>>}
ForeignFiles ==
  { NotJson,
    JsonDoc("Feature", <<>>),
    JsonDoc("FeatureCollection", <<>>),
    JsonDoc("FeatureCollection", <<NotAnObject>>),
    JsonDoc("FeatureCollection", <<JsonObject(SmallArea, PropsP),
                                   JsonObject(WideArea, NoMember)>>),
    JsonDoc("FeatureCollection", <<JsonObject(WideArea, PropsQ), NotAnObject,
                                   JsonObject(SmallArea, PropsP)>>) }
CCities    == {<<"a">>, <<" ", "A">>, <<"b">>}
CCountries == {NoneStr}

NoOp == [op |-> "none", key |-> <<>>, areas |-> <<>>, written |-> FALSE,
         loaded |-> FALSE, count |-> 0, ok |-> FALSE]
SaveOp(key, areas, written) ==
  [op |-> "save", key |-> key, areas |-> areas, written |-> written,
   loaded |-> FALSE, count |-> 0, ok |-> FALSE]
LoadOp(key, loaded) ==
  [op |-> "load", key |-> key, areas |-> <<>>, written |-> FALSE,
   loaded |-> loaded, count |-> 0, ok |-> FALSE]
LoadAllOp(count) ==
  [op |-> "load_all", key |-> <<>>, areas |-> <<>>, written |-> FALSE,
   loaded |-> FALSE, count |-> count, ok |-> FALSE]
\* fetch_city_geojson: ok = it returned, areas = the list it returned
FetchOp(key, areas, ok) ==
  [op |-> "fetch", key |-> key, areas |-> areas, written |-> FALSE,
   loaded |-> FALSE, count |-> 0, ok |-> ok]
\* _process_city: ok = the flag it returned, areas = the list it passed to
\* save_city_small_polygons_cache, written = the file was written
ProcessOp(key, areas, ok, written) ==
  [op |-> "process_city", key |-> key, areas |-> areas, written |-> written,
   loaded |-> FALSE, count |-> 0, ok |-> ok]

\* c_prev remembers the operation before the last one when it was a save or
\* a bulk load
PrevOp(last) == IF last.op \in {"save", "load_all"} THEN last ELSE NoOp

\* the directory at start: empty, or holding one file somebody else wrote
CacheInit ==
  /\ c_pc = "ready"
  /\ DISK \in {<<>>} \cup {CacheFile(<<"a">>) :> doc : doc \in ForeignFiles}
                     \cup {FileName(<<"b">>, ".json") :> JsonDump(FeatureCollection(<<F1>>))}
  /\ c_last = NoOp
  /\ c_prev = NoOp

CacheOff ==
  /\ c_pc = "off" /\ DISK = <<>> /\ c_last = NoOp /\ c_prev = NoOp

\* file -> content after a write
WriteFile(disk, name, doc) ==
  [n \in DOMAIN disk \cup {name} |-> IF n = name THEN doc ELSE disk[n]]
PutEntry_Append(cache, key, features) ==
  [q \in DOMAIN cache \cup {key} |->
     IF q # key THEN cache[q]
     ELSE IF key \in DOMAIN cache THEN cache[key] \o features ELSE features]
PutEntry(cache, key, features) ==
  [q \in DOMAIN cache \cup {key} |-> IF q = key THEN features ELSE cache[q]]

\* lines 230-247: the file is written whole, or open() raises and nothing is
\* written, or the dump raises and leaves a truncated file; the exception is
\* logged and the path is returned in every case
CacheSave ==
  /\ c_pc = "ready"
  /\ \E city \in CCities, country \in CCountries, features \in CacheLists,
        outcome \in {"written", "open failed", "dump failed"} :
       LET cache_key == CityCacheKey(city, country)
           filepath  == CacheFile(cache_key)
           fc        == FeatureCollection(features)
       IN /\ DISK' = CASE outcome = "written"     -> WriteFile(DISK, filepath, JsonDump(fc))
                       [] outcome = "open failed" -> DISK
                       [] outcome = "dump failed" -> WriteFile(DISK, filepath, NotJson)
          /\ c_last' = SaveOp(cache_key, features, outcome = "written")
  /\ c_prev' = PrevOp(c_last)
  /\ UNCHANGED <<c_pc, CACHE>>
  /\ UNCHANGED <<cv_vars, d_locals, k_vars, s_vars, m_vars, p_vars>>

CacheLoad_ClearsOnFailure ==
  /\ c_pc = "ready"
  /\ \E city \in CCities, country \in CCountries :
       LET cache_key == CityCacheKey(city, country)
           filepath  == CacheFile(cache_key)
           features  == IF filepath \in DOMAIN DISK
                        THEN FeaturesOfFile(DISK[filepath]) ELSE <<>>
       IN IF features # <<>>
          THEN /\ CACHE' = PutEntry(CACHE, cache_key, features)
               /\ c_last' = LoadOp(cache_key, TRUE)
          ELSE /\ CACHE' = [q \in DOMAIN CACHE \ {cache_key} |-> CACHE[q]]
               /\ c_last' = LoadOp(cache_key, FALSE)
  /\ c_prev' = PrevOp(c_last)
  /\ UNCHANGED <<c_pc, DISK>>
  /\ UNCHANGED <<cv_vars, d_locals, k_vars, s_vars, m_vars, p_vars>>

\* lines 250-274
CacheLoad ==
  /\ c_pc = "ready"
  /\ \E city \in CCities, country \in CCountries :
       LET cache_key == CityCacheKey(city, country)
           filepath  == CacheFile(cache_key)
           features  == IF filepath \in DOMAIN DISK
                        THEN FeaturesOfFile(DISK[filepath]) ELSE <<>>
       IN IF features # <<>>
          THEN /\ CACHE' = PutEntry(CACHE, cache_key, features)
               /\ c_last' = LoadOp(cache_key, TRUE)
          ELSE /\ CACHE' = CACHE
               /\ c_last' = LoadOp(cache_key, FALSE)
  /\ c_prev' = PrevOp(c_last)
  /\ UNCHANGED <<c_pc, DISK>>
  /\ UNCHANGED <<cv_vars, d_locals, k_vars, s_vars, m_vars, p_vars>>

\* lines 277-312: every *.geojson file that yields a non-empty list is put in
\* the cache under its name without the suffix
LoadableFiles_AllGeojson(disk) == {n \in DOMAIN disk : n.ext = ".geojson"}
LoadableFiles(disk) ==
  {n \in DOMAIN disk : n.ext = ".geojson" /\ FeaturesOfFile(disk[n]) # <<>>}
CacheLoadAll ==
  /\ c_pc = "ready"
  /\ LET loadable == LoadableFiles(DISK)
         keys     == {n.stem : n \in loadable}
     IN /\ CACHE' = [q \in DOMAIN CACHE \cup keys |->
                       IF q \in keys THEN FeaturesOfFile(DISK[CacheFile(q)])
                       ELSE CACHE[q]]
        /\ c_last' = LoadAllOp(Cardinality(loadable))
  /\ c_prev' = PrevOp(c_last)
  /\ UNCHANGED <<c_pc, DISK>>
  /\ UNCHANGED <<cv_vars, d_locals, k_vars, s_vars, m_vars, p_vars>>

\* fetch_city_geojson(city, country) as one step (lines 87-227): the
\* geocoder's answers to the boundary request and to the keyword requests,
\* and the order in which the futures complete, are the environment's
KeywordAnswers ==
  { [k \in Synonyms |-> Response("RequestException", <<>>)],
    [k \in Synonyms |-> IF k = 1 THEN Response("items", <<I2, I1>>)
                        ELSE IF k = 2 THEN Response("Exception", <<I1>>)
                        ELSE Response("items", <<>>)],
    [k \in Synonyms |-> IF k = 1 THEN Response("items", <<>>)
                        ELSE Response("items", <<I3, IPt, IBad>>)] }
CompletionOrders ==
  { [i \in Synonyms |-> i], [i \in Synonyms |-> NSyn + 1 - i] }

RECURSIVE CollectAll(_, _, _, _, _)
CollectAll(i, order, futs, seen, cands) ==
  IF i > NSyn THEN <<seen, cands>>
  ELSE IF futs[order[i]].exc THEN CollectAll(i + 1, order, futs, seen, cands)
  ELSE LET merged == MergeResults(futs[order[i]].results, seen, cands)
       IN CollectAll(i + 1, order, futs, merged[1], merged[2])

\* the call with the fallback of lines 214-218 in place of the raise
FetchCityGeojson_CachesEmpty(cache, city, country, bresp, answers, order) ==
  LET full_feature == FetchCityFull(city, bresp)
      cache_key    == CityCacheKey(city, country)
  IN IF full_feature.type = "Error"
     THEN [ok |-> FALSE, features |-> <<>>, cache |-> cache]
     ELSE IF CacheHit(cache, cache_key)
     THEN [ok |-> TRUE, features |-> cache[cache_key], cache |-> cache]
     ELSE LET shape == ToShapelyGeometry(full_feature)
              futs  == [k \in Synonyms |-> FetchForSyn(shape, k, answers[k])]
              cands == CollectAll(1, order, futs, {}, <<>>)[2]
          IN [ok |-> TRUE, features |-> TopFeatures(cands),
              cache |-> PutEntry(cache, cache_key, TopFeatures(cands))]

\* the outcome of the call: the exception, or the list returned and the
\* cache after the call
FetchCityGeojson(cache, city, country, bresp, answers, order) ==
  LET full_feature == FetchCityFull(city, bresp)
      cache_key    == CityCacheKey(city, country)
  IN IF full_feature.type = "Error"
     THEN [ok |-> FALSE, features |-> <<>>, cache |-> cache]
     ELSE IF CacheHit(cache, cache_key)
     THEN [ok |-> TRUE, features |-> cache[cache_key], cache |-> cache]
     ELSE LET shape == ToShapelyGeometry(full_feature)
              futs  == [k \in Synonyms |-> FetchForSyn(shape, k, answers[k])]
              cands == CollectAll(1, order, futs, {}, <<>>)[2]
          IN IF cands = <<>>
             THEN [ok |-> FALSE, features |-> <<>>, cache |-> cache]
             ELSE [ok |-> TRUE, features |-> TopFeatures(cands),
                   cache |-> PutEntry(cache, cache_key, TopFeatures(cands))]

\* the outcomes the environment can produce for one call
FetchOutcomes(cache, city, country) ==
  { FetchCityGeojson(cache, city, country, bresp, answers, order) :
      bresp \in BoundaryResponses, answers \in KeywordAnswers,
      order \in CompletionOrders }

CacheFetch ==
  /\ c_pc = "ready"
  /\ \E city \in CCities, country \in CCountries :
       \E out \in FetchOutcomes(CACHE, city, country) :
          /\ CACHE' = out.cache
          /\ c_last' = FetchOp(CityCacheKey(city, country), out.features, out.ok)
  /\ c_prev' = PrevOp(c_last)
  /\ UNCHANGED <<c_pc, DISK>>
  /\ UNCHANGED <<cv_vars, d_locals, k_vars, s_vars, m_vars, p_vars>>

\* make_geojson_cache._process_city (lines 42-63): fetch_city_geojson and,
\* when it returned, save_city_small_polygons_cache with the list
CacheProcessCity ==
  /\ c_pc = "ready"
  /\ \E city \in CCities, country \in CCountries :
     \E out \in FetchOutcomes(CACHE, city, country),
        outcome \in {"written", "open failed", "dump failed"} :
       LET cache_key == CityCacheKey(city, country)
           filepath  == CacheFile(cache_key)
           fc        == FeatureCollection(out.features)
       IN /\ CACHE' = out.cache
          /\ IF out.ok
             THEN /\ DISK' = CASE outcome = "written"     -> WriteFile(DISK, filepath, JsonDump(fc))
                               [] outcome = "open failed" -> DISK
                               [] outcome = "dump failed" -> WriteFile(DISK, filepath, NotJson)
                  /\ c_last' = ProcessOp(cache_key, out.features, TRUE, outcome = "written")
             ELSE /\ DISK' = DISK
                  /\ c_last' = ProcessOp(cache_key, <<>>, FALSE, FALSE)
  /\ c_prev' = PrevOp(c_last)
  /\ UNCHANGED c_pc
  /\ UNCHANGED <<cv_vars, d_locals, k_vars, s_vars, m_vars, p_vars>>

CacheNext == CacheSave \/ CacheLoad \/ CacheLoadAll

\* The batch tool and the service are separate processes over one cache
\* directory: a process ends and the next one starts with an empty
\* _CITY_SMALL_POLYGONS_CACHE (geo.py:21), the files stay
RestartOp ==
  [op |-> "restart", key |-> <<>>, areas |-> <<>>, written |-> FALSE,
   loaded |-> FALSE, count |-> 0, ok |-> FALSE]
CacheRestart ==
  /\ c_pc = "ready"
  /\ CACHE # <<>>
  /\ CACHE' = <<>>
  /\ c_last' = RestartOp
  /\ c_prev' = PrevOp(c_last)
  /\ UNCHANGED <<c_pc, DISK>>
  /\ UNCHANGED <<cv_vars, d_locals, k_vars, s_vars, m_vars, p_vars>>

PersistInit ==
  /\ c_pc = "ready"
  /\ DISK \in {<<>>,
               CacheFile(<<"a">>) :>
                 JsonDoc("FeatureCollection",
                         <<JsonObject(WideArea, PropsQ), NotAnObject,
                           JsonObject(SmallArea, PropsP)>>),
               FileName(<<"b">>, ".json") :> JsonDump(FeatureCollection(<<F1>>))}
  /\ c_last = NoOp
  /\ c_prev = NoOp

PersistNext ==
  CacheFetch \/ CacheProcessCity \/ CacheLoad \/ CacheLoadAll \/ CacheRestart

----------------------------------------------------------------------------
\* The point sampler: random_point_in_polygon and random_points_in_polygon
\* (geo.py:50-78).  A point is <<px, py>> in half cells: an odd coordinate
\* lies inside a cell, an even one on a grid line.

MaxTries == 3    \* largest max_tries a call is given; the default of 10_000
MaxCount == 2    \* largest count given to random_points_in_polygon

NoBias  == [given |-> FALSE, val |-> 0]      \* center_bias=None
Bias(b) == [given |-> TRUE, val |-> b]
Biased(cb) == cb.given /\ cb.val # 0          \* if center_bias:

\* the cells whose closure holds the coordinate
CellsAt(h) == IF h % 2 = 1 THEN {(h - 1) \div 2} ELSE {h \div 2 - 1, h \div 2}

\* shape.contains(pt): the point is in the interior of the shape (for a
\* Point shape, the point itself)
ContainsPt_Closed(shape, pt) ==
  \E x \in CellsAt(pt[1]), y \in CellsAt(pt[2]) : <<x, y>> \in shape.cells
ContainsPt(shape, pt) ==
  IF IsAreal(shape)
  THEN \A x \in CellsAt(pt[1]), y \in CellsAt(pt[2]) : <<x, y>> \in shape.cells
  ELSE shape.type = "Point" /\ \E c \in shape.cells : pt = <<2 * c[1], 2 * c[2]>>

\* _random_point_in_bounds(minx, miny, maxx, maxy): random.uniform on both axes
DrawPoints(shape) ==
  LET b == Bounds(shape)
  IN {<<px, py>> : px \in (2 * b[1])..(2 * b[3]), py \in (2 * b[2])..(2 * b[4])}

\* scale = max(maxx - minx, maxy - miny)
Scale(shape) ==
  LET b == Bounds(shape) IN Max2(b[3] - b[1], b[4] - b[2])

RECURSIVE SumCoord(_, _)
SumCoord(cells, i) ==
  IF cells = {} THEN 0
  ELSE LET c == CHOOSE c \in cells : TRUE
       IN (2 * c[i] + 1) + SumCoord(cells \ {c}, i)

\* pt.distance(centroid) = 0
AtCentroid(shape, pt) ==
  LET n == Cardinality(shape.cells)
  IN n * pt[1] = SumCoord(shape.cells, 1) /\ n * pt[2] = SumCoord(shape.cells, 2)

\* lines 65-72: random.random() > accept_p rejects; accept_p is 1 at the
\* centroid and below 1 elsewhere
BiasOutcomes(shape, pt) ==
  IF AtCentroid(shape, pt) THEN {"ok"} ELSE {"ok", "bias"}

LShape    == Geom("Polygon", {<<0, 0>>, <<1, 0>>, <<0, 1>>}, 0)
Diagonal  == Geom("MultiPolygon", {<<0, 0>>, <<1, 1>>}, 0)
SampGeoms ==
  { LShape, Feature(SmallArea, PropsP),
    FeatureCollection(<<Feature(Diagonal, PropsQ)>>), CityPoint }
SampCalls ==
  [fn : {"random_point_in_polygon"}, count : {1}, max_tries : -1..MaxTries,
   center_bias : {NoBias, Bias(0), Bias(1)}]
    \cup [fn : {"random_points_in_polygon"}, count : 0..MaxCount,
          max_tries : {MaxTries}, center_bias : {NoBias}]

SampInit ==
  /\ s_pc = "idle"
  /\ s_fn = "" /\ s_geom = None /\ s_count = 0 /\ s_max_tries = 0
  /\ s_center_bias = NoBias
  /\ s_tries = 0 /\ s_points = <<>> /\ s_error = None /\ s_log = <<>>

\* a call of random_point_in_polygon(geom, max_tries, center_bias) or of
\* random_points_in_polygon(geom, count); range(0) returns the empty list
SampCall ==
  /\ s_pc \in {"idle", "returned", "raised"}
  /\ \E geom \in SampGeoms, call \in SampCalls :
       /\ s_geom' = geom
       /\ s_fn' = call.fn
       /\ s_count' = call.count
       /\ s_max_tries' = call.max_tries
       /\ s_center_bias' = call.center_bias
       /\ s_pc' = IF call.count = 0 THEN "returned" ELSE "loop"
  /\ s_tries' = 0 /\ s_points' = <<>> /\ s_error' = None /\ s_log' = <<>>
  /\ UNCHANGED <<cv_vars, d_vars, k_vars, c_vars, m_vars, p_vars>>

\* line 61: for _ in range(max_tries)
TriesLeft_OneMore(tries, max_tries) == tries <= max_tries
TriesLeft(tries, max_tries) == tries < max_tries

\* lines 61-73: one iteration of the loop: draw, test, and either go round
\* again or return (pt.y, pt.x); a returned point ends the call or, in
\* random_points_in_polygon, starts the loop for the next point
SampDraw ==
  /\ s_pc = "loop"
  /\ TriesLeft(s_tries, s_max_tries)
  /\ LET shape == ToShapelyGeometry(s_geom)
     IN \E pt \in DrawPoints(shape), roll \in {"ok", "bias"} :
          LET outcome ==
                IF ~ContainsPt(shape, pt) THEN "out"
                ELSE IF ~Biased(s_center_bias) THEN "ok"
                ELSE IF Scale(shape) = 0 THEN "ZeroDivisionError"
                ELSE IF roll \in BiasOutcomes(shape, pt) THEN roll ELSE "ok"
              points == Append(s_points, <<pt[2], pt[1]>>)
          IN CASE outcome \in {"out", "bias"} ->
                    /\ s_tries' = s_tries + 1
                    /\ s_log' = Append(s_log, outcome)
                    /\ UNCHANGED <<s_pc, s_points, s_error>>
               [] outcome = "ZeroDivisionError" ->
                    /\ s_pc' = "raised"
                    /\ s_error' = Err("ZeroDivisionError", "float division by zero", "None")
                    /\ s_points' = <<>>
                    /\ s_tries' = s_tries + 1
                    /\ s_log' = Append(s_log, "error")
               [] outcome = "ok" ->
                    /\ s_points' = points
                    /\ UNCHANGED s_error
                    /\ IF Len(points) = s_count
                       THEN /\ s_pc' = "returned"
                            /\ s_tries' = s_tries + 1
                            /\ s_log' = Append(s_log, "ok")
                       ELSE /\ s_pc' = "loop"
                            /\ s_tries' = 0
                            /\ s_log' = <<>>
  /\ UNCHANGED <<s_fn, s_geom, s_count, s_max_tries, s_center_bias>>
  /\ UNCHANGED <<cv_vars, d_vars, k_vars, c_vars, m_vars, p_vars>>

\* line 74 with a point made up instead of the exception
SampExhaust_ReturnCorner ==
  /\ s_pc = "loop"
  /\ ~TriesLeft(s_tries, s_max_tries)
  /\ LET b == Bounds(ToShapelyGeometry(s_geom))
     IN s_points' = Append(s_points, <<2 * b[2], 2 * b[1]>>)
  /\ s_pc' = "returned"
  /\ UNCHANGED <<s_fn, s_geom, s_count, s_max_tries, s_center_bias, s_tries,
                 s_error, s_log>>
  /\ UNCHANGED <<cv_vars, d_vars, k_vars, c_vars, m_vars, p_vars>>

\* line 74: the loop ran out; the exception ends random_points_in_polygon
\* too, whose list is never returned
SampExhaust ==
  /\ s_pc = "loop"
  /\ ~TriesLeft(s_tries, s_max_tries)
  /\ s_pc' = "raised"
  /\ s_error' = Err("RuntimeError",
                    "Failed to sample a point inside polygon after many attempts",
                    "None")
  /\ s_points' = <<>>
  /\ UNCHANGED <<s_fn, s_geom, s_count, s_max_tries, s_center_bias, s_tries, s_log>>
  /\ UNCHANGED <<cv_vars, d_vars, k_vars, c_vars, m_vars, p_vars>>

SampNext == SampCall \/ SampDraw \/ SampExhaust

----------------------------------------------------------------------------
\* The cache pre-builder: make_geojson_cache.main and _process_city
\* (app/make_geojson_cache.py:42-102)

MaxCities == 2          \* longest list of cities of a run
NoExit    == -1         \* main has not returned

\* one _process_city call: where it is, the boundary response it got, the
\* list fetch_city_geojson returned to it, its ok, and whether the save
\* wrote the file
ProcTask(pc, bresp, features, ok, written) ==
  [pc |-> pc, boundary |-> bresp, list |-> features, ok |-> ok, written |-> written]
NewTask == ProcTask("new", NoResponse, <<>>, FALSE, FALSE)

RECURSIVE SeqsUpTo(_, _)
SeqsUpTo(S, n) ==
  IF n = 0 THEN {<<>>}
  ELSE LET shorter == SeqsUpTo(S, n - 1)
       IN shorter \cup {Append(q, x) : q \in shorter, x \in S}

BatchInit ==
  /\ m_pc = "start"
  /\ cities \in SeqsUpTo(CCities, MaxCities)
  /\ concurrency \in {1, 2}
  /\ m_task = [i \in 1..Len(cities) |-> NewTask]
  /\ num_ok = 0 /\ num_fail = 0
  /\ m_exit = NoExit

BatchOff ==
  /\ m_pc = "off" /\ cities = <<>> /\ concurrency = 1 /\ m_task = <<>>
  /\ num_ok = 0 /\ num_fail = 0 /\ m_exit = NoExit

CityIndex == 1..Len(cities)
ProcRunning == {i \in CityIndex : m_task[i].pc \in {"check", "discover", "save"}}

\* lines 76-88: the sequential loop, or the executor with every city submitted
BatchStart ==
  /\ m_pc = "start"
  /\ IF concurrency <= 1
     THEN /\ m_pc' = "loop"
          /\ UNCHANGED m_task
     ELSE /\ m_pc' = "pool"
          /\ m_task' = [i \in CityIndex |-> [m_task[i] EXCEPT !.pc = "queued"]]
  /\ UNCHANGED <<cities, concurrency, num_ok, num_fail, m_exit>>
  /\ UNCHANGED <<cv_vars, d_vars, k_vars, c_vars, s_vars, p_vars>>

\* the next city of the sequential loop is called (line 80), or a free
\* worker takes the oldest submitted call; the call starts with its jitter
\* sleep (line 43)
ProcStart(i) ==
  /\ \/ /\ m_pc = "loop"
        /\ m_task[i].pc = "new"
        /\ \A j \in CityIndex : j < i => m_task[j].pc = "counted"
     \/ /\ m_pc = "pool"
        /\ m_task[i].pc = "queued"
        /\ \A j \in CityIndex : m_task[j].pc = "queued" => i <= j
        /\ Cardinality(ProcRunning) < Max2(1, concurrency)
  /\ m_task' = [m_task EXCEPT ![i].pc = "check"]
  /\ UNCHANGED <<m_pc, cities, concurrency, num_ok, num_fail, m_exit>>
  /\ UNCHANGED <<cv_vars, d_vars, k_vars, c_vars, s_vars, p_vars>>

\* fetch_city_geojson, geo.py:89-100: the boundary request, then the cache
\* look-up; an exception ends _process_city with ok = False (lines 61-63)
ProcCheck(i) ==
  /\ m_task[i].pc = "check"
  /\ \E bresp \in BoundaryResponses :
       LET full_feature == FetchCityFull(cities[i], bresp)
           cache_key    == CityCacheKey(cities[i], NoneStr)
       IN m_task' =
            [m_task EXCEPT ![i] =
               IF full_feature.type = "Error"
               THEN ProcTask("done", bresp, <<>>, FALSE, FALSE)
               ELSE IF CacheHit(CACHE, cache_key)
               THEN ProcTask("save", bresp, CACHE[cache_key], FALSE, FALSE)
               ELSE ProcTask("discover", bresp, <<>>, FALSE, FALSE)]
  /\ UNCHANGED <<m_pc, cities, concurrency, num_ok, num_fail, m_exit>>
  /\ UNCHANGED <<cv_vars, d_vars, k_vars, c_vars, s_vars, p_vars>>

\* what the discovery of lines 102-222 can come to for a boundary: the
\* ranked list, <<>> when no candidate was found
DiscoveryOutcomes(city, bresp) ==
  { FetchCityGeojson(<<>>, city, NoneStr, bresp, answers, order).features :
      answers \in KeywordAnswers, order \in CompletionOrders }

\* geo.py:102-227 on a miss: the keyword requests, the ranking, and the
\* assignment of the list to the cache; ValueError when nothing was found
ProcStore_Merge(i) ==
  /\ m_task[i].pc = "discover"
  /\ \E top \in DiscoveryOutcomes(cities[i], m_task[i].boundary) :
       LET cache_key == CityCacheKey(cities[i], NoneStr)
       IN IF top = <<>>
          THEN /\ m_task' = [m_task EXCEPT ![i].pc = "done"]
               /\ UNCHANGED CACHE
          ELSE /\ CACHE' = PutEntry_Append(CACHE, cache_key, top)
               /\ m_task' = [m_task EXCEPT ![i].pc = "save", ![i].list = top]
  /\ UNCHANGED <<m_pc, cities, concurrency, num_ok, num_fail, m_exit>>
  /\ UNCHANGED <<cv_vars, d_locals, k_vars, c_vars, s_vars, p_vars>>
ProcStore(i) ==
  /\ m_task[i].pc = "discover"
  /\ \E top \in DiscoveryOutcomes(cities[i], m_task[i].boundary) :
       LET cache_key == CityCacheKey(cities[i], NoneStr)
       IN IF top = <<>>
          THEN /\ m_task' = [m_task EXCEPT ![i].pc = "done"]
               /\ UNCHANGED CACHE
          ELSE /\ CACHE' = PutEntry(CACHE, cache_key, top)
               /\ m_task' = [m_task EXCEPT ![i].pc = "save", ![i].list = top]
  /\ UNCHANGED <<m_pc, cities, concurrency, num_ok, num_fail, m_exit>>
  /\ UNCHANGED <<cv_vars, d_locals, k_vars, c_vars, s_vars, p_vars>>

\* lines 47-60: features = list(fc.features); the save writes the file, or
\* logs its failure; either way _process_city returns ok = True
ProcSave(i) ==
  /\ m_task[i].pc = "save"
  /\ \E outcome \in {"written", "open failed", "dump failed"} :
       LET filepath == CacheFile(CityCacheKey(cities[i], NoneStr))
           fc       == FeatureCollection(m_task[i].list)
       IN /\ DISK' = CASE outcome = "written"     -> WriteFile(DISK, filepath, JsonDump(fc))
                       [] outcome = "open failed" -> DISK
                       [] outcome = "dump failed" -> WriteFile(DISK, filepath, NotJson)
          /\ m_task' = [m_task EXCEPT ![i].pc = "done", ![i].ok = TRUE,
                                      ![i].written = (outcome = "written")]
  /\ UNCHANGED <<m_pc, cities, concurrency, num_ok, num_fail, m_exit>>
  /\ UNCHANGED <<c_pc, c_last, c_prev>>
  /\ UNCHANGED <<cv_vars, d_vars, k_vars, s_vars, p_vars>>

\* lines 81-86 and 90-99: main takes the result of a finished call
MainCount_StopOnFailure(i) ==
  /\ m_pc \in {"loop", "pool"}
  /\ m_task[i].pc = "done"
  /\ m_task' = [m_task EXCEPT ![i].pc = "counted"]
  /\ IF m_task[i].ok
     THEN /\ num_ok' = num_ok + 1
          /\ UNCHANGED <<num_fail, m_pc, m_exit>>
     ELSE /\ num_fail' = num_fail + 1
          /\ m_pc' = "done"
          /\ m_exit' = 1
          /\ UNCHANGED num_ok
  /\ UNCHANGED <<cities, concurrency>>
  /\ UNCHANGED <<cv_vars, d_vars, k_vars, c_vars, s_vars, p_vars>>
MainCount(i) ==
  /\ m_pc \in {"loop", "pool"}
  /\ m_task[i].pc = "done"
  /\ m_task' = [m_task EXCEPT ![i].pc = "counted"]
  /\ IF m_task[i].ok
     THEN /\ num_ok' = num_ok + 1
          /\ UNCHANGED num_fail
     ELSE /\ num_fail' = num_fail + 1
          /\ UNCHANGED num_ok
  /\ UNCHANGED <<m_pc, cities, concurrency, m_exit>>
  /\ UNCHANGED <<cv_vars, d_vars, k_vars, c_vars, s_vars, p_vars>>

\* lines 101-102: return 0 if num_fail == 0 else 1
BatchEnd ==
  /\ m_pc \in {"loop", "pool"}
  /\ \A i \in CityIndex : m_task[i].pc = "counted"
  /\ m_pc' = "done"
  /\ m_exit' = IF num_fail = 0 THEN 0 ELSE 1
  /\ UNCHANGED <<cities, concurrency, m_task, num_ok, num_fail>>
  /\ UNCHANGED <<cv_vars, d_vars, k_vars, c_vars, s_vars, p_vars>>

BatchNext ==
  \/ BatchStart
  \/ \E i \in CityIndex : ProcStart(i)
  \/ \E i \in CityIndex : ProcCheck(i)
  \/ \E i \in CityIndex : ProcStore(i)
  \/ \E i \in CityIndex : ProcSave(i)
  \/ \E i \in CityIndex : MainCount(i)
  \/ BatchEnd

----------------------------------------------------------------------------
\* The panorama batch driver: batch_panorama.main over
\* get_panorama.request_pano_pipeline (scripts/batch_panorama.py:39-123,
\* scripts/get_panorama.py:125-191)

MaxQuery == 3           \* largest --num_query of a run

\* what request_pano_pipeline hands back: the bare int of line 151, or a
\* (status, metadata) tuple
Rst(kind, status) == [kind |-> kind, status |-> status]
NoRst == Rst("none", -1)

\* get_panorama.py:148-191, by the way the call ends
PipelineOutcomes(key) ==
  IF ~key THEN {"no key"}
  ELSE {"request failed", "raised", "download failed", "ok"}
PipelineReturn(outcome) ==
  CASE outcome = "no key"          -> Rst("int", 2)       \* line 151: return 2
    [] outcome = "request failed"  -> Rst("tuple", 1)     \* line 166
    [] outcome = "download failed" -> Rst("tuple", 1)     \* line 191
    [] outcome = "ok"              -> Rst("tuple", 0)     \* line 190

\* one query: where it is, how its pipeline ended, its rst, and whether the
\* metadata file was written
PanoTask(pc, outcome, rst, meta) ==
  [pc |-> pc, outcome |-> outcome, rst |-> rst, meta |-> meta]
NewQuery == PanoTask("new", "", NoRst, FALSE)

\* batch_panorama.py:40-47
PanoInit ==
  /\ p_pc = "start"
  /\ num_query \in 0..MaxQuery
  /\ p_concurrency \in {1, 2}
  /\ google_api_key \in BOOLEAN
  /\ p_task = [i \in 1..num_query |-> NewQuery]
  /\ num_success = 0
  /\ progress = 0
  /\ p_error = None

QueryIndex == 1..num_query
QueryRunning == {i \in QueryIndex : p_task[i].pc = "run"}
Sequential == p_concurrency <= 1

\* lines 50-53, or 76-95: the tasks are prepared and all submitted
PanoStart ==
  /\ p_pc = "start"
  /\ IF Sequential
     THEN /\ p_pc' = "loop"
          /\ UNCHANGED p_task
     ELSE /\ p_pc' = "pool"
          /\ p_task' = [i \in QueryIndex |-> [p_task[i] EXCEPT !.pc = "queued"]]
  /\ UNCHANGED <<num_query, p_concurrency, google_api_key, num_success, progress,
                 p_error>>
  /\ UNCHANGED <<cv_vars, d_vars, k_vars, c_vars, s_vars, m_vars>>

\* a free worker of the executor takes the oldest submitted task and sleeps
\* its jitter (lines 82-84); the workers go on while an exception of main
\* leaves the with block, which waits for them
WorkerTake(i) ==
  /\ ~Sequential
  /\ p_pc \in {"pool", "crashed"}
  /\ p_task[i].pc = "queued"
  /\ \A j \in QueryIndex : p_task[j].pc = "queued" => i <= j
  /\ Cardinality(QueryRunning) < Max2(1, p_concurrency)
  /\ p_task' = [p_task EXCEPT ![i].pc = "run"]
  /\ UNCHANGED <<p_pc, num_query, p_concurrency, google_api_key, num_success,
                 progress, p_error>>
  /\ UNCHANGED <<cv_vars, d_vars, k_vars, c_vars, s_vars, m_vars>>

\* lines 56-59: the next query of the sequential loop calls
\* request_pano_pipeline, with nothing around the call to catch what it raises
PipelineSeq(i) ==
  /\ Sequential
  /\ p_pc = "loop"
  /\ p_task[i].pc = "new"
  /\ \A j \in QueryIndex : j < i => p_task[j].pc = "collected"
  /\ \E outcome \in PipelineOutcomes(google_api_key) :
       IF outcome = "raised"
       THEN /\ p_task' = [p_task EXCEPT ![i].outcome = outcome]
            /\ p_pc' = "crashed"
            /\ p_error' = Err("Exception", "request_pano_pipeline", "None")
       ELSE /\ p_task' = [p_task EXCEPT ![i] =
                            PanoTask("finished", outcome, PipelineReturn(outcome), FALSE)]
            /\ UNCHANGED <<p_pc, p_error>>
  /\ UNCHANGED <<num_query, p_concurrency, google_api_key, num_success, progress>>
  /\ UNCHANGED <<cv_vars, d_vars, k_vars, c_vars, s_vars, m_vars>>

\* lines 85-89: _run_task returns what the pipeline returned, or
\* (1, {"error": ...}) for an exception
PipelinePool(i) ==
  /\ ~Sequential
  /\ p_pc \in {"pool", "crashed"}
  /\ p_task[i].pc = "run"
  /\ \E outcome \in PipelineOutcomes(google_api_key) :
       p_task' = [p_task EXCEPT ![i] =
                    PanoTask("finished", outcome,
                             IF outcome = "raised" THEN Rst("tuple", 1)
                             ELSE PipelineReturn(outcome),
                             FALSE)]
  /\ UNCHANGED <<p_pc, num_query, p_concurrency, google_api_key, num_success,
                 progress, p_error>>
  /\ UNCHANGED <<cv_vars, d_vars, k_vars, c_vars, s_vars, m_vars>>

\* lines 60-72 and 98-120: main looks at rst[0], counts a success and writes
\* its metadata file, and moves the progress bar. rst[0] on the int of a
\* missing key is a TypeError in both modes; a failed metadata write is
\* caught in the pool mode (lines 108-115) and not in the loop (lines 63-67)
Collect(i) ==
  /\ p_pc \in {"loop", "pool"}
  /\ p_task[i].pc = "finished"
  /\ LET rst == p_task[i].rst
     IN IF rst.kind = "int"
        THEN /\ p_pc' = "crashed"
             /\ p_error' = Err("TypeError", "'int' object is not subscriptable", "None")
             /\ UNCHANGED <<p_task, num_success, progress>>
        ELSE IF rst.status = 0
        THEN /\ num_success' = num_success + 1
             /\ \E wrote \in BOOLEAN :
                  IF ~wrote /\ Sequential
                  THEN /\ p_pc' = "crashed"
                       /\ p_error' = Err("OSError", "metadata", "None")
                       /\ UNCHANGED <<p_task, progress>>
                  ELSE /\ p_task' = [p_task EXCEPT ![i].pc = "collected",
                                                   ![i].meta = wrote]
                       /\ progress' = progress + 1
                       /\ UNCHANGED <<p_pc, p_error>>
        ELSE /\ p_task' = [p_task EXCEPT ![i].pc = "collected"]
             /\ progress' = progress + 1
             /\ UNCHANGED <<p_pc, p_error, num_success>>
  /\ UNCHANGED <<num_query, p_concurrency, google_api_key>>
  /\ UNCHANGED <<cv_vars, d_vars, k_vars, c_vars, s_vars, m_vars>>

\* lines 73, 121-123: the loop is over; the totals are printed
PanoEnd ==
  /\ p_pc \in {"loop", "pool"}
  /\ \A i \in QueryIndex : p_task[i].pc = "collected"
  /\ p_pc' = "done"
  /\ UNCHANGED <<num_query, p_concurrency, google_api_key, p_task, num_success,
                 progress, p_error>>
  /\ UNCHANGED <<cv_vars, d_vars, k_vars, c_vars, s_vars, m_vars>>

PanoNext ==
  \/ PanoStart
  \/ \E i \in QueryIndex : WorkerTake(i)
  \/ \E i \in QueryIndex : PipelineSeq(i)
  \/ \E i \in QueryIndex : PipelinePool(i)
  \/ \E i \in QueryIndex : Collect(i)
  \/ PanoEnd

----------------------------------------------------------------------------
\* Components that take no step in a specification

DisOff ==
  /\ d_pc = "off" /\ d_city = NoneStr /\ d_country = NoneStr
  /\ boundary = NoResponse
  /\ city_shape = None /\ submitted = 0 /\ task = <<>> /\ future = <<>>
  /\ response = <<>>
  /\ seen_geoms = {} /\ candidates = <<>> /\ CACHE = <<>>
  /\ d_result = <<>> /\ d_error = None

KeyOff ==
  /\ k_pc = "off" /\ k_city = <<>> /\ k_country = NoneStr
  /\ k_city2 = <<>> /\ k_country2 = NoneStr
  /\ k_key = NoneStr /\ k_key2 = NoneStr

----------------------------------------------------------------------------
\* Specifications

SampOff ==
  /\ s_pc = "off" /\ s_fn = "" /\ s_geom = None /\ s_count = 0 /\ s_max_tries = 0
  /\ s_center_bias = NoBias /\ s_tries = 0 /\ s_points = <<>> /\ s_error = None
  /\ s_log = <<>>

PanoOff ==
  /\ p_pc = "off" /\ num_query = 0 /\ p_concurrency = 1 /\ google_api_key = TRUE
  /\ p_task = <<>> /\ num_success = 0 /\ progress = 0 /\ p_error = None

InitCoverage == CovInit /\ DisOff /\ KeyOff /\ CacheOff /\ SampOff /\ BatchOff /\ PanoOff
SpecCoverage == InitCoverage /\ [][CovNext]_vars

InitDiscovery == DisInit /\ CovOff /\ KeyOff /\ CacheOff /\ SampOff /\ BatchOff /\ PanoOff
SpecDiscovery == InitDiscovery /\ [][DisNext]_vars

\* fetch_city_geojson when the threads of a call keep running: the sleep of
\* line 127 ends, a request returns or raises within its timeout (line 140),
\* a free worker takes the next queued task and as_completed hands over a
\* finished future; whether another call is made is left open
DisStep ==
  \/ DisSubmit
  \/ \E k \in Synonyms : TaskStart(k)
  \/ \E k \in Synonyms : TaskRequest(k)
  \/ \E k \in Synonyms : TaskFinish(k)
  \/ \E k \in Synonyms : DisCollect(k)
  \/ DisRank
FairDiscovery == WF_vars(DisStep)
SpecDiscoveryFair == InitDiscovery /\ [][DisNext]_vars /\ FairDiscovery

InitKey == KeyInit /\ CovOff /\ DisOff /\ CacheOff /\ SampOff /\ BatchOff /\ PanoOff
SpecKey == InitKey /\ [][KeyNext]_vars

InitKeyPair == KeyPairInit /\ CovOff /\ DisOff /\ CacheOff /\ SampOff /\ BatchOff /\ PanoOff
SpecKeyPair == InitKeyPair /\ [][KeyNext]_vars

InitCache == CacheInit /\ CovOff /\ DisOff /\ KeyOff /\ SampOff /\ BatchOff /\ PanoOff
SpecCache == InitCache /\ [][CacheNext]_vars

InitPersist == PersistInit /\ CovOff /\ DisOff /\ KeyOff /\ SampOff /\ BatchOff /\ PanoOff
SpecPersist == InitPersist /\ [][PersistNext]_vars

InitBatch ==
  BatchInit /\ CovOff /\ DisOff /\ KeyOff /\ CacheOff /\ SampOff /\ PanoOff
SpecBatch == InitBatch /\ [][BatchNext]_vars

InitPano ==
  PanoInit /\ CovOff /\ DisOff /\ KeyOff /\ CacheOff /\ SampOff /\ BatchOff
SpecPano == InitPano /\ [][PanoNext]_vars

InitSampler == SampInit /\ CovOff /\ DisOff /\ KeyOff /\ CacheOff /\ BatchOff /\ PanoOff
SpecSampler == InitSampler /\ [][SampNext]_vars
\* the loop of lines 61-74 runs in the calling thread: an iteration that can
\* be taken is taken
SampStep == SampDraw \/ SampExhaust
FairSampler == WF_vars(SampStep)
SpecSamplerFair == InitSampler /\ [][SampNext]_vars /\ FairSampler

----------------------------------------------------------------------------
\* Properties of the Coverage Search Loop (checked under SpecCoverage)

CovExhausted ==
  /\ cv_pc = "raised"
  /\ cv_error.kind = "StreetViewError"
  /\ cv_error.msg = "No Street View found"
NotFoundOnEveryCall == \A j \in 1..Len(cv_log) : cv_log[j].status # "OK"
HasCaptureDate(m) == m.date # Absent \/ m.image_date # Absent

(* C1: for max_attempts >= 1, while every metadata call has returned a
   response whose status is not the found one, the run returns no result and
   goes round again until max_attempts queries are made; after the
   max_attempts-th its only step is to raise the exhaustion StreetViewError,
   which is raised after exactly max_attempts queries, one per sampled
   point.  (A run in which the area lookup, the sampler or the transport
   raises ends with that exception instead; the claim is about the runs in
   which the metadata lookup returns.) *)
C1_ExhaustsExactlyMaxAttempts ==
  (max_attempts >= 1 /\ NotFoundOnEveryCall) =>
     /\ cv_result = None
     /\ cv_pc # "returned"
     /\ Len(cv_log) <= max_attempts
     /\ (cv_pc = "raised" /\ cv_error.kind = "StreetViewError"
           /\ cv_error.msg = "No Street View found") =>
          (Len(cv_log) = max_attempts /\ cv_samples = max_attempts)
     /\ (cv_pc = "loop" /\ Len(cv_log) < max_attempts) =>
          (ENABLED CovSample /\ ~ENABLED CovExhaust)
     /\ (cv_pc = "loop" /\ Len(cv_log) = max_attempts) =>
          (~ENABLED CovSample /\ ENABLED CovExhaust)

C1_Witness ==
  /\ CovExhausted
  /\ max_attempts >= 2
  /\ Len(cv_log) = max_attempts
  /\ NotFoundOnEveryCall

(* C2: a result exists exactly when some response satisfied the acceptance
   predicate; then the run is in its terminal returned state, the accepted
   response is the last one received and the first acceptable one, and the
   result carries its ordinal k as attempts together with the point, radius
   and metadata of attempt k; k points were sampled and k queries issued. *)
C2_AcceptedAtKth ==
  /\ (\E j \in 1..Len(cv_log) : IsMetadataAcceptable(cv_log[j], optimise))
        => cv_result # None
  /\ cv_result # None =>
       LET k == Len(cv_log)
       IN /\ cv_pc = "returned"
          /\ ~ENABLED CovNext
          /\ k >= 1 /\ k <= max_attempts
          /\ IsMetadataAcceptable(cv_log[k], optimise)
          /\ \A j \in 1..(k - 1) : ~IsMetadataAcceptable(cv_log[j], optimise)
          /\ cv_result.attempts = k
          /\ cv_result.metadata = cv_log[k]
          /\ cv_result.latitude = latlng[1]
          /\ cv_result.longitude = latlng[2]
          /\ cv_result.radius = effective_radius
          /\ cv_samples = k
          /\ attempt = k

C2_Witness ==
  /\ cv_pc = "returned"
  /\ cv_result.attempts = MaxAttempts
  /\ cv_result.metadata = cv_log[MaxAttempts]
  /\ cv_log[1].status = "OK"

(* C3: a result carries metadata whose status is OK and, when optimise is
   set, a capture date; every response with another status was rejected;
   an OK response with no capture date was rejected when optimise is set
   and accepted when it is not. *)
C3_OnlyAcceptableMetadata ==
  LET Accepted(j) == cv_pc = "returned" /\ j = Len(cv_log)
  IN /\ cv_result # None =>
          /\ cv_result.metadata.status = "OK"
          /\ optimise => HasCaptureDate(cv_result.metadata)
     /\ \A j \in 1..Len(cv_log) :
          /\ cv_log[j].status # "OK" => ~Accepted(j)
          /\ (cv_log[j].status = "OK" /\ ~HasCaptureDate(cv_log[j])) =>
               (Accepted(j) <=> ~optimise)

C3_Witness ==
  /\ cv_pc = "returned"
  /\ optimise
  /\ Len(cv_log) >= 2
  /\ cv_log[1].status = "OK" /\ ~HasCaptureDate(cv_log[1])
  /\ HasCaptureDate(cv_result.metadata)

(* C4: the exhaustion error carries the status of the response of the last,
   max_attempts-th, attempt. *)
C4_LastAttemptStatus ==
  (CovExhausted /\ max_attempts >= 1) =>
     /\ Len(cv_log) = max_attempts
     /\ cv_error.status = cv_log[max_attempts].status

C4_Witness ==
  /\ CovExhausted
  /\ Len(cv_log) >= 2
  /\ cv_log[1].status # cv_log[Len(cv_log)].status
  /\ cv_error.status = cv_log[Len(cv_log)].status

----------------------------------------------------------------------------
\* Properties of Sub-Area Discovery (checked under SpecDiscovery)

AllCollected == \A k \in Synonyms : task[k] = "collected"
\* fetch_city_geojson has returned from the cache-miss path
DisMissReturn == d_pc = "returned" /\ AllCollected

Fingerprint(f) == WkbHex(f.geometry)
ResultIndex == 1..Len(d_result)

\* The place objects of the keyword responses whose task did not fail
RespondedItems ==
  UNION { {response[k].items[i] : i \in 1..Len(response[k].items)} :
          k \in {j \in Synonyms : response[j].kind = "items"} }
\* ... that are Polygons or MultiPolygons lying within the boundary
CoveredAreal(it) ==
  /\ it.geojson # None
  /\ it.geojson.type \in {"Polygon", "MultiPolygon"}
  /\ it.geojson.state = "ok"
  /\ city_shape.type \in {"Polygon", "MultiPolygon"}
  /\ \A c \in it.geojson.cells : c \in city_shape.cells
QualifyingItems == {it \in RespondedItems : CoveredAreal(it)}
QualifyingKeys  == {WkbHex(it.geojson) : it \in QualifyingItems}

(* C5: the list returned by discovery never holds two candidates with the
   same geometry fingerprint, whichever keywords returned them and in
   whichever order the keyword tasks completed. *)
C5_NoDuplicateFingerprints ==
  DisMissReturn =>
    \A i, j \in ResultIndex : i # j => Fingerprint(d_result[i]) # Fingerprint(d_result[j])

C5_Witness ==
  /\ DisMissReturn
  /\ \E k1, k2 \in Synonyms :
       /\ k1 # k2
       /\ response[k1].kind = "items" /\ response[k2].kind = "items"
       /\ \E i1 \in 1..Len(response[k1].items), i2 \in 1..Len(response[k2].items) :
            /\ WkbHex(response[k1].items[i1].geojson) = WkbHex(response[k2].items[i2].geojson)
            /\ response[k1].items[i1].display_name # response[k2].items[i2].display_name
            /\ \E i \in ResultIndex :
                 Fingerprint(d_result[i]) = WkbHex(response[k1].items[i1].geojson)

(* C6: every returned candidate is a Polygon or MultiPolygon that lies
   within the boundary (touching it is allowed) and is a place object of its
   keyword's response; no result of another type or reaching outside the
   boundary is returned. *)
C6_ReturnedAreCovered ==
  DisMissReturn =>
    \A i \in ResultIndex :
      LET f == d_result[i]
      IN /\ f.geometry.type \in {"Polygon", "MultiPolygon"}
         /\ f.geometry.cells \subseteq city_shape.cells
         /\ \E it \in QualifyingItems :
              /\ it.geojson = f.geometry
              /\ it.display_name = f.properties.display_name
              /\ it.osm_id = f.properties.osm_id

C6_Witness ==
  /\ DisMissReturn
  /\ \E i \in ResultIndex : d_result[i].geometry.cells = city_shape.cells
  /\ IOut \in RespondedItems
  /\ IPt \in RespondedItems

(* C7: the returned sequence is sorted by area non-increasing and has at
   most TopN entries; it has TopN entries when more than TopN distinct
   candidates qualify, and no qualifying candidate that was left out is
   larger than one that was kept. *)
C7_RankedAndCut ==
  DisMissReturn =>
    /\ \A i, j \in ResultIndex :
         i < j => Area(d_result[i].geometry) >= Area(d_result[j].geometry)
    /\ Len(d_result) <= TopN
    /\ Cardinality(QualifyingKeys) > TopN => Len(d_result) = TopN
    /\ \A it \in QualifyingItems :
         (\A i \in ResultIndex : Fingerprint(d_result[i]) # WkbHex(it.geojson)) =>
           \A i \in ResultIndex :
             Cardinality(it.geojson.cells) <= Cardinality(d_result[i].geometry.cells)

C7_Witness ==
  /\ DisMissReturn
  /\ Cardinality(QualifyingKeys) > TopN
  /\ Len(d_result) = TopN
  /\ Area(d_result[1].geometry) > Area(d_result[TopN].geometry)
  /\ \E it \in QualifyingItems :
       \A i \in ResultIndex : Fingerprint(d_result[i]) # WkbHex(it.geojson)

(* C8: when every keyword task has been handled and no response held a
   qualifying candidate, the call raises the "no candidate" ValueError,
   returns nothing (no fallback to the boundary polygon) and leaves the
   place key without a cache entry. *)
C8_NoCandidatesFails ==
  (d_pc \in {"returned", "raised"} /\ AllCollected /\ QualifyingItems = {}) =>
     /\ d_pc = "raised"
     /\ d_error.kind = "ValueError"
     /\ d_error.msg = "No candidate small polygons found"
     /\ d_result = <<>>
     /\ CityCacheKey(d_city, d_country) \notin DOMAIN CACHE

C8_Witness ==
  /\ d_pc = "raised"
  /\ AllCollected
  /\ d_error.msg = "No candidate small polygons found"
  /\ RespondedItems # {}
  /\ CACHE = <<>>

(* C9: when at most TopN distinct geometries qualify, the returned
   geometries are exactly the distinct covered Polygon/MultiPolygon
   geometries of the responses of the tasks that did not fail, each once. *)
C9_ExactlyTheQualifyingSet ==
  (DisMissReturn /\ Cardinality(QualifyingKeys) <= TopN) =>
     /\ {Fingerprint(d_result[i]) : i \in ResultIndex} = QualifyingKeys
     /\ Len(d_result) = Cardinality(QualifyingKeys)

\* three covered matches, two of them with the same fingerprint: 2 candidates
C9_Witness ==
  /\ DisMissReturn
  /\ QualifyingItems = {I1, I2, I2x}
  /\ Len(d_result) = 2
  /\ Area(d_result[1].geometry) > Area(d_result[2].geometry)

----------------------------------------------------------------------------
\* Properties of the place key (checked under SpecKey)

IsBlank(s) == s = NoneStr \/ \A i \in 1..Len(s) : s[i] = " "

\* The request's text between its first and last non-blank character, in
\* lower case
Normalised(s) ==
  LET idx == {i \in 1..Len(s) : s[i] # " "}
  IN IF idx = {} THEN <<>>
     ELSE [i \in 1..(SetMax(idx) - SetMin(idx) + 1) |->
             LET ch == s[SetMin(idx) + i - 1]
             IN IF ch = "A" THEN "a" ELSE IF ch = "B" THEN "b" ELSE ch]

(* C10: two requests that differ only in casing and in leading/trailing
   whitespace of city and country get the same place key, and a request
   whose country is absent, empty or blank gets the key of its city alone. *)
C10_KeyIgnoresCaseAndPadding ==
  k_pc = "done" =>
    /\ k_key = k_key2
    /\ IsBlank(k_country2) => k_key2 = Normalised(k_city2)
    /\ ~IsBlank(k_country2) =>
         k_key2 = Normalised(k_city2) \o <<",">> \o Normalised(k_country2)

C10_Witness ==
  /\ k_pc = "done"
  /\ k_city = <<"a", "B">> /\ k_city2 = <<" ", "A", "b", " ">>
  /\ k_country = <<"b">> /\ k_country2 = <<"B", " ">>
  /\ k_key = <<"a", "b", ",", "b">>

C10_WitnessBlankCountry ==
  /\ k_pc = "done"
  /\ k_country = NoneStr /\ k_country2 = <<" ", " ">>
  /\ k_city2 # k_city

----------------------------------------------------------------------------
\* Properties of the cache files (checked under SpecCache)

\* the last two operations were a save whose file was written and then a
\* load of the same place key
LoadAfterSave ==
  /\ c_last.op = "load" /\ c_prev.op = "save"
  /\ c_last.key = c_prev.key
  /\ c_prev.written

(* C11 as stated: for any place key and any candidate list, a save whose
   file was written followed by a load of the same key reports success and
   leaves the in-memory entry of that key equal to the saved list. *)
C11_AnyListRoundTrips ==
  LoadAfterSave =>
     /\ c_last.loaded
     /\ c_last.key \in DOMAIN CACHE
     /\ CACHE[c_last.key] = c_prev.areas

(* C11: for any place key and any non-empty candidate list, when
   save_city_small_polygons_cache has written the file, a following
   load_city_small_polygons_cache of the same key reports success and leaves
   the in-memory entry of that key equal to the saved list: same order, same
   geometry and same properties of every candidate. *)
C11_NonEmptyListRoundTrips ==
  (LoadAfterSave /\ c_prev.areas # <<>>) =>
     /\ c_last.loaded
     /\ c_last.key \in DOMAIN CACHE
     /\ Len(CACHE[c_last.key]) = Len(c_prev.areas)
     /\ \A i \in 1..Len(c_prev.areas) :
          /\ CACHE[c_last.key][i].geometry = c_prev.areas[i].geometry
          /\ CACHE[c_last.key][i].properties = c_prev.areas[i].properties

C11_Witness ==
  /\ LoadAfterSave
  /\ c_prev.areas = <<F1, F2>>
  /\ c_last.loaded
  /\ CACHE[c_last.key] = <<F1, F2>>

\* a file of the directory that is a FeatureCollection with an entry that
\* cannot be read as a feature
HasMalformedEntry(doc) ==
  /\ doc.type = "FeatureCollection"
  /\ \E i \in 1..Len(doc.features) : doc.features[i] = NotAnObject

(* C12: loading is all-or-nothing per file: after load_city_small_polygons_cache
   of a key, or after load_all_city_caches_from_dir, a *.geojson file in which
   some entry is malformed has put no entry in the in-memory cache (the cache
   is empty before the first load and files with a malformed entry are never
   written by a save, so an entry under the file's key comes from that
   file). *)
C12_LoadIsAllOrNothing ==
  \A n \in DOMAIN DISK :
     ( /\ n.ext = ".geojson"
       /\ HasMalformedEntry(DISK[n])
       /\ \/ c_last.op = "load" /\ c_last.key = n.stem
          \/ c_last.op = "load_all" )
     => n.stem \notin DOMAIN CACHE

----------------------------------------------------------------------------
\* The cache and the boundary lookup inside fetch_city_geojson (checked under
\* SpecDiscovery)

DisKey == CityCacheKey(d_city, d_country)
NoKeywordWork ==
  /\ submitted = 0
  /\ \A k \in Synonyms :
       task[k] = "new" /\ response[k] = NoResponse /\ future[k] = NoFuture
  /\ seen_geoms = {} /\ candidates = <<>>

\* the current call found the place key in the cache: the key is in the cache
\* although the call has not ranked any candidates (a call that misses puts
\* the key in the cache only in its last step, after every keyword task has
\* been collected, and no step removes a key)
CacheHitCall == DisKey \in DOMAIN CACHE /\ ~AllCollected

(* C13: when the cache holds an entry for the place key of the call,
   fetch_city_geojson submits no keyword task and issues no keyword query,
   filters, merges and ranks nothing, and the value it returns is exactly the
   cached list in the cached order.  (The boundary request of line 89 is made
   before the cache is looked at and may raise instead; that is C14.) *)
C13_HitReturnsCachedList ==
  (DisKey \in DOMAIN CACHE) =>
     /\ d_pc \in {"returned", "raised"}
     /\ CacheHitCall => NoKeywordWork
     /\ d_pc = "returned" => d_result = CACHE[DisKey]

C13_Witness ==
  /\ CacheHitCall
  /\ d_pc = "returned"
  /\ NoKeywordWork
  /\ Len(d_result) = 2
  /\ d_result = CACHE[DisKey]

(* C14: the Boundary Resolver is invoked only on a cache miss: a call whose
   place key is in the cache issues no geocoder request and returns, so a
   geocoder failure cannot make it fail. *)
C14_HitNeedsNoGeocoder ==
  CacheHitCall => (d_pc = "returned" /\ boundary = NoResponse)

\* the state right after _fetch_city_full_geojson was called with a city and
\* the geocoder answered
BoundaryAnswered == boundary.kind = "items" /\ NoKeywordWork
BoundaryRaised(msg) ==
  d_pc = "raised" /\ d_error.kind = "ValueError" /\ d_error.msg = msg

(* C17: the outcome of _fetch_city_full_geojson is determined by the
   geocoder's response: zero results give the not-found error; a top result
   without polygon data (no geojson member, or a geojson that is not a
   Polygon or MultiPolygon) gives the no-geometry error; otherwise the top
   result's geometry is returned and becomes the boundary. *)
C17_BoundaryFromResponse ==
  BoundaryAnswered =>
     IF boundary.items = <<>>
     THEN BoundaryRaised("No results for city query")
     ELSE IF boundary.items[1].geojson = None \/ ~IsAreal(boundary.items[1].geojson)
          THEN BoundaryRaised("City result does not include polygon geojson")
          ELSE /\ d_pc \in {"submit", "returned"}
               /\ city_shape = ToShapelyGeometry(boundary.items[1].geojson)

----------------------------------------------------------------------------
\* Properties of the point sampler (checked under SpecSampler)

\* the point (lat, lng), in half cells, lies in the interior of the geometry:
\* every cell whose closed square holds the point belongs to the geometry
\* (for a Point geometry: it is that point)
NearCells == {<<x, y>> : x \in -1..3, y \in -1..3}
InClosedCell(c, lat, lng) ==
  /\ 2 * c[1] <= lng /\ lng <= 2 * c[1] + 2
  /\ 2 * c[2] <= lat /\ lat <= 2 * c[2] + 2
StrictlyInside(g, lat, lng) ==
  IF IsAreal(g)
  THEN \A c \in NearCells : InClosedCell(c, lat, lng) => c \in g.cells
  ELSE g.type = "Point" /\ \A c \in g.cells : lng = 2 * c[1] /\ lat = 2 * c[2]

NoneAccepted == \A j \in 1..Len(s_log) : s_log[j] \in {"out", "bias"}
SamplingExhausted ==
  /\ s_pc = "raised"
  /\ s_error.kind = "RuntimeError"
  /\ s_error.msg = "Failed to sample a point inside polygon after many attempts"

(* C15: every point random_point_in_polygon returns lies inside the geometry
   (shape.contains), with or without center bias, and
   random_points_in_polygon(geom, N) returns exactly N such points or raises
   and returns none. *)
C15_ReturnedPointsInside ==
  /\ \A i \in 1..Len(s_points) :
       StrictlyInside(ToShapelyGeometry(s_geom), s_points[i][1], s_points[i][2])
  /\ s_pc = "returned" => Len(s_points) = s_count
  /\ s_pc = "raised" => s_points = <<>>

C15_Witness ==
  /\ s_pc = "returned"
  /\ s_fn = "random_point_in_polygon"
  /\ Biased(s_center_bias)
  /\ \E j \in 1..Len(s_log) : s_log[j] = "bias"
  /\ Len(s_points) = 1

C15_WitnessList ==
  /\ s_pc = "returned"
  /\ s_fn = "random_points_in_polygon"
  /\ s_count = 2 /\ Len(s_points) = 2
  /\ s_points[1] # s_points[2]

(* C16: when max_tries draws have been made for a point and none was
   accepted, the only step left is to raise the RuntimeError of line 74, and
   the call ends with that exception and returns no point; a call that
   returns a point has accepted its last draw. *)
C16_ExhaustionRaises ==
  /\ (s_pc = "loop" /\ s_tries >= s_max_tries) =>
        (ENABLED SampExhaust /\ ~ENABLED SampDraw)
  /\ (s_pc \in {"returned", "raised"} /\ s_count >= 1 /\ NoneAccepted
        /\ Len(s_log) = Max2(s_max_tries, 0)) =>
        (SamplingExhausted /\ s_points = <<>>)
  /\ (s_pc = "returned" /\ s_count >= 1) =>
        (s_log # <<>> /\ s_log[Len(s_log)] = "ok")

C16_Witness ==
  /\ SamplingExhausted
  /\ s_max_tries >= 2
  /\ Len(s_log) = s_max_tries
  /\ \E j \in 1..Len(s_log) : s_log[j] = "out"
  /\ \E j \in 1..Len(s_log) : s_log[j] = "bias"

----------------------------------------------------------------------------
\* Concurrency of the keyword tasks (checked under SpecDiscovery)

\* what the call returns when the futures are handed over in the order in
\* which the keywords were submitted
RECURSIVE MergeInOrder(_, _, _)
MergeInOrder(k, seen, cands) ==
  IF k > NSyn THEN <<seen, cands>>
  ELSE IF future[k].exc THEN MergeInOrder(k + 1, seen, cands)
  ELSE LET merged == MergeResults(future[k].results, seen, cands)
       IN MergeInOrder(k + 1, merged[1], merged[2])
ResultInSubmissionOrder == TopFeatures(MergeInOrder(1, {}, <<>>)[2])

(* C18: the value discovery returns does not depend on the order in which
   the keyword tasks complete: whatever that order, the returned sequence
   (candidates, their order and their properties, matched keyword included)
   is the one obtained when the futures complete in submission order. *)
C18_CompletionOrderIrrelevant ==
  DisMissReturn => d_result = ResultInSubmissionOrder

FailedTask(k) == response[k].kind \in {"RequestException", "Exception"}
NoCandidatesRaised ==
  /\ d_pc = "raised"
  /\ d_error.kind = "ValueError"
  /\ d_error.msg = "No candidate small polygons found"

(* C19: a keyword task that fails (request error, time-out, bad response)
   contributes no result and never ends the call: every finished task can
   still be collected, the merged set holds every qualifying place of the
   keywords that did not fail, and a call that has started its keyword tasks
   raises only after all of them were collected and only the no-candidates
   error, which happens exactly when nothing qualified. *)
C19_TaskFailureIsContained ==
  /\ \A k \in Synonyms :
       /\ (task[k] \in {"done", "collected"} /\ FailedTask(k)) =>
             future[k].results = <<>>
       /\ (d_pc = "collect" /\ task[k] = "done") => ENABLED DisCollect(k)
  /\ (d_pc = "raised" /\ submitted > 0) =>
        (NoCandidatesRaised /\ AllCollected /\ QualifyingKeys = {})
  /\ d_pc \in {"submit", "collect"} => d_error = None
  /\ AllCollected => seen_geoms = QualifyingKeys
  /\ DisMissReturn => QualifyingKeys # {}

C19_Witness ==
  /\ DisMissReturn
  /\ \E k \in Synonyms : response[k].kind = "RequestException"
  /\ \E k \in Synonyms : response[k].kind = "Exception"
  /\ d_result # <<>>

\* a step of the calling thread: the entry of a call, which creates the two
\* structures empty, or the hand-over of one finished future
CallerEnters == d_pc \in {"idle", "returned", "raised"} /\ d_pc' # "off"
CallerCollects(k) ==
  /\ d_pc = "collect"
  /\ task[k] = "done" /\ task'[k] = "collected"
  /\ \A j \in Synonyms \ {k} : task'[j] = task[j]

(* C20: seen_geoms and candidates are written by the calling thread only:
   a step that changes either of them is the entry of a call or the
   collection of one finished future, never a step of a keyword task; a
   keyword task only fills its own future. *)
C20_OnlyCallerWritesShared ==
  [][ /\ (seen_geoms' # seen_geoms \/ candidates' # candidates) =>
           (CallerEnters \/ \E k \in Synonyms : CallerCollects(k))
      /\ \A k \in Synonyms :
           (future'[k] # future[k]) =>
              \/ CallerEnters
              \/ /\ task[k] = "requesting" /\ task'[k] = "done"
                 /\ \A j \in Synonyms \ {k} : future'[j] = future[j]
    ]_vars

C20_Witness ==
  /\ d_pc = "collect"
  /\ candidates # <<>>
  /\ \E k \in Synonyms : task[k] = "requesting"
  /\ \E k \in Synonyms : task[k] = "collected" /\ future[k].results # <<>>

----------------------------------------------------------------------------
\* The worker pool of a discovery call (checked under SpecDiscovery)

InFlight == {k \in Synonyms : task[k] = "requesting"}
FanOutOver == AllCollected /\ d_pc \in {"returned", "raised"}

(* C21: within one discovery call at most MaxWorkers keyword requests are in
   flight at any time (MaxWorkers stands for the 10 of the source); every
   keyword of the synonym list is queried exactly once: a task sends its
   request only out of its jitter sleep, which it enters only once, out of
   the queue, it receives one response, and when the call has ranked, every
   keyword has been answered. *)
C21_BoundedFanOutOncePerKeyword ==
  /\ [](/\ Cardinality(InFlight) <= MaxWorkers
        /\ Cardinality(Busy) <= MaxWorkers
        /\ FanOutOver => \A k \in Synonyms : response[k] # NoResponse)
  /\ [][ CallerEnters \/
         \A k \in Synonyms :
            /\ (task'[k] = "requesting" /\ task[k] # "requesting") => task[k] = "sleeping"
            /\ (task'[k] = "sleeping" /\ task[k] # "sleeping") => task[k] = "queued"
            /\ (task'[k] = "queued" /\ task[k] # "queued") => task[k] = "new"
            /\ (response'[k] # response[k]) =>
                  (task[k] = "requesting" /\ response[k] = NoResponse)
       ]_vars

C21_Witness ==
  /\ Cardinality(InFlight) = MaxWorkers
  /\ \E k \in Synonyms : task[k] = "queued"

DisRunning == d_pc \in {"submit", "collect"}
DisEnded   == d_pc \in {"returned", "raised"}

(* C22: there is no cancellation in discovery: whatever the other tasks are
   doing, a sleeping task can send its request, a request can complete and a
   finished future can be handed over; a running task is never reset; the
   call leaves its fan-out (ranks and returns, or raises) only when every
   keyword task has been collected, with every qualifying result merged; and
   when every sleep and every request ends, the call ends. *)
C22_NoCancellation ==
  /\ [](\A k \in Synonyms :
          /\ task[k] = "sleeping" => ENABLED TaskRequest(k)
          /\ task[k] = "requesting" => ENABLED TaskFinish(k)
          /\ (d_pc = "collect" /\ task[k] = "done") => ENABLED DisCollect(k))
  /\ [][ /\ (DisRunning /\ DisEnded') =>
              (AllCollected /\ seen_geoms = QualifyingKeys)
         /\ \A k \in Synonyms :
              /\ task[k] \in {"sleeping", "requesting"} =>
                    task'[k] \in {"sleeping", "requesting", "done"}
              /\ task[k] = "done" => task'[k] \in {"done", "collected"}
       ]_vars
  /\ (DisRunning ~> DisEnded)

C22_Witness ==
  /\ d_pc = "collect"
  /\ \E k \in Synonyms :
       /\ task[k] = "requesting"
       /\ \A j \in Synonyms \ {k} : task[j] = "collected"
  /\ candidates # <<>>

\* ---- the cache as a map of whole lists ----

\* the keys whose entry a step created or changed
WrittenKeys ==
  {q \in DOMAIN CACHE' : q \notin DOMAIN CACHE \/ CACHE'[q] # CACHE[q]}
\* the complete list the operation of the step holds for key q: the ranked
\* list of a discovery, the features of the key's file for the two loads
WholeList(q) ==
  IF c_last'.op \in {"fetch", "process_city"} THEN c_last'.areas
  ELSE IF CacheFile(q) \in DOMAIN DISK THEN FeaturesOfFile(DISK[CacheFile(q)])
  ELSE <<>>

(* C23: within a process, an entry of the in-memory cache is only written
   as a whole: a step of a discovery, a single-file load or a bulk load that
   creates or changes an entry assigns the operation's complete list to it
   (a discovery and a single-file load write their own key only), every
   other entry is left as it was, and no entry is removed. *)
C23_EntriesWrittenWhole ==
  [][ c_last'.op # "restart" =>
        /\ DOMAIN CACHE \subseteq DOMAIN CACHE'
        /\ WrittenKeys # {} => c_last'.op \in {"fetch", "process_city", "load", "load_all"}
        /\ \A q \in WrittenKeys :
             /\ CACHE'[q] = WholeList(q)
             /\ CACHE'[q] # <<>>
             /\ c_last'.op # "load_all" => q = c_last'.key
    ]_vars

\* a single-file load has written one key while the entry a discovery left
\* under another key, which has no file, is still there
C23_Witness ==
  /\ c_last.op = "load" /\ c_last.loaded
  /\ CACHE[c_last.key] = FeaturesOfFile(DISK[CacheFile(c_last.key)])
  /\ \E q \in DOMAIN CACHE :
       q # c_last.key /\ CacheFile(q) \notin DOMAIN DISK /\ Len(CACHE[q]) > 1

(* C24: disk persistence is write-through: whenever a successful discovery
   (of the service or of the batch tool) writes an entry into the in-memory
   cache, the file {placeKey}.geojson of the cache directory holds the same
   full candidate list after the operation. *)
C24_DiscoveryWritesThrough ==
  [][ c_last'.op \in {"fetch", "process_city"} =>
        \A q \in WrittenKeys :
          /\ CacheFile(q) \in DOMAIN DISK'
          /\ DISK'[CacheFile(q)] = JsonDump(FeatureCollection(CACHE'[q]))
    ]_vars

\* ---- bulk load ----

\* a document that is a feature collection with at least one feature object
HoldsFeatures(doc) ==
  /\ doc.type = "FeatureCollection"
  /\ \E i \in 1..Len(doc.features) : doc.features[i] # NotAnObject
CollectionFiles ==
  {n \in DOMAIN DISK : n.ext = ".geojson" /\ HoldsFeatures(DISK[n])}
\* the file of key q is what save_city_small_polygons_cache writes for a
\* non-empty list
SavedUnder(q) ==
  /\ CacheFile(q) \in DOMAIN DISK
  /\ FeaturesOfFile(DISK[CacheFile(q)]) # <<>>
  /\ DISK[CacheFile(q)] =
       JsonDump(FeatureCollection(FeaturesOfFile(DISK[CacheFile(q)])))

(* C25: after load_all_city_caches_from_dir, every file k.geojson holding a
   feature collection with features has set the entry under k, the name
   without the suffix, and the count returned is the number of those files;
   where the file is one that save_city_small_polygons_cache wrote for
   (city, country), every equivalent (city, country) hits that entry, and a
   fetch_city_geojson right after the bulk load that returns, returns the
   saved list and leaves the cache as it is. *)
C25_BulkLoadPopulates ==
  /\ [](c_last.op = "load_all" =>
          /\ \A n \in CollectionFiles :
               /\ n.stem \in DOMAIN CACHE
               /\ CACHE[n.stem] = FeaturesOfFile(DISK[n])
          /\ c_last.count = Cardinality(CollectionFiles)
          /\ \A city \in CCities, country \in CCountries :
               SavedUnder(CityCacheKey(city, country)) =>
                 /\ CacheHit(CACHE, CityCacheKey(city, country))
                 /\ \E out \in FetchOutcomes(CACHE, city, country) : out.ok)
  /\ [][ ( /\ c_last.op = "load_all"
           /\ c_last'.op = "fetch" /\ c_last'.ok
           /\ SavedUnder(c_last'.key) ) =>
             /\ c_last'.areas = FeaturesOfFile(DISK[CacheFile(c_last'.key)])
             /\ CACHE' = CACHE
       ]_vars

\* a fetch right after a bulk load that populated two entries has returned
\* the list of a file the batch tool had saved
C25_Witness ==
  /\ c_last.op = "fetch" /\ c_last.ok
  /\ c_prev.op = "load_all" /\ c_prev.count = 2
  /\ SavedUnder(c_last.key)
  /\ c_last.areas = FeaturesOfFile(DISK[CacheFile(c_last.key)])
  /\ Len(c_last.areas) > 1

\* ---- single-file load ----

\* the file of key q gives the load nothing to put in the cache: it is
\* missing, is not JSON, is not a feature collection, or yields no feature
NothingToLoad(q) ==
  \/ CacheFile(q) \notin DOMAIN DISK
  \/ DISK[CacheFile(q)] = NotJson
  \/ DISK[CacheFile(q)].type # "FeatureCollection"
  \/ \A i \in 1..Len(DISK[CacheFile(q)].features) :
        DISK[CacheFile(q)].features[i] = NotAnObject

(* C26: load_city_small_polygons_cache returns True exactly when it has
   replaced the in-memory entry of its key with the features of the key's
   file, leaving every other entry alone; when it returns False (the file is
   missing, unreadable, not a feature collection or without features) the
   whole in-memory cache is as it was, an entry already there for the key
   included. *)
C26_LoadReportsWhatItDid ==
  [][ c_last'.op = "load" =>
        LET q == c_last'.key
        IN IF c_last'.loaded
           THEN /\ ~NothingToLoad(q)
                /\ DOMAIN CACHE' = DOMAIN CACHE \cup {q}
                /\ CACHE'[q] = FeaturesOfFile(DISK[CacheFile(q)])
                /\ \A o \in DOMAIN CACHE \ {q} : CACHE'[o] = CACHE[o]
           ELSE /\ NothingToLoad(q)
                /\ CACHE' = CACHE
    ]_vars

\* a load that returned False after a save of the same key left the file
\* without features, and the entry an earlier load had set is still there
C26_Witness ==
  /\ c_last.op = "load" /\ ~c_last.loaded
  /\ c_prev.op = "save" /\ c_prev.key = c_last.key
  /\ NothingToLoad(c_last.key)
  /\ c_last.key \in DOMAIN CACHE
  /\ Len(CACHE[c_last.key]) > 1

----------------------------------------------------------------------------
\* Failures, radius and budget of the Coverage Search Loop (SpecCoverage)

NoApiKey       == Err("StreetViewError", "GOOGLE_MAPS_API_KEY not configured", "None")
TransportError == Err("RequestException", "transport", "None")
MetadataLookupFailed == cv_pc = "raised" /\ cv_error \in {NoApiKey, TransportError}

(* C27: when street_view_metadata raises in attempt k (no API key, or a
   transport error), find_streetview_random ends in that step with that
   exception: the step leaves the attempt counter, the responses received
   and last_metadata as they were, no further step of the call exists, the
   exception is not the exhaustion error, k points were sampled and only
   the k - 1 earlier queries were answered, each with a rejected response;
   without an API key the query step can do nothing else; and the loop is
   only ever re-entered with one answered query per attempt. *)
C27_LookupFailurePropagates ==
  /\ [](/\ MetadataLookupFailed =>
             /\ ~ENABLED CovNext
             /\ ~CovExhausted
             /\ cv_result = None
             /\ attempt >= 1 /\ attempt <= max_attempts
             /\ cv_samples = attempt
             /\ Len(cv_log) = attempt - 1
             /\ \A j \in 1..Len(cv_log) : ~IsMetadataAcceptable(cv_log[j], optimise)
        /\ cv_pc = "loop" => Len(cv_log) = attempt)
  /\ [][ /\ (cv_pc = "query" /\ cv_pc' = "raised") =>
              /\ cv_error' \in {NoApiKey, TransportError}
              /\ attempt' = attempt
              /\ cv_log' = cv_log
              /\ last_metadata' = last_metadata
         /\ (cv_pc = "query" /\ ~api_key_ok) =>
              (cv_pc' = "raised" /\ cv_error' = NoApiKey)
       ]_vars

\* a transport error in the second of three allowed attempts
C27_Witness ==
  /\ cv_pc = "raised" /\ cv_error = TransportError
  /\ attempt = 2 /\ max_attempts = 3
  /\ Len(cv_log) = 1

\* the radius derived from the bounding box of the area: ten times the
\* larger side in kilometres (a cell is 1/50 degree, a degree 111 km), and
\* at least the minimum
SpanCells(area) ==
  LET b == Bounds(ToShapelyGeometry(area))
  IN Max2(b[3] - b[1], b[4] - b[2])
DerivedRadius(area) ==
  IF (SpanCells(area) * 1110) \div 50 < MinRadius THEN MinRadius
  ELSE (SpanCells(area) * 1110) \div 50
SampledOverArea == geojson_area # None /\ cv_samples >= 1

(* C28 as stated: in every attempt over a geometry the effective radius is
   the override whenever one is given, 0 included, and otherwise the value
   derived from the bounding box, which is at least 50. *)
C28_OverrideAlwaysWins ==
  SampledOverArea =>
     /\ radius.given => effective_radius = radius.val
     /\ ~radius.given =>
          (effective_radius = DerivedRadius(geojson_area) /\ effective_radius >= 50)

(* C28: in every attempt over a geometry the effective radius is the
   override whenever a non-zero one is given; with no override, or an
   override of 0, it is the value derived from the bounding box, which is
   at least 50; an accepted attempt returns that radius. *)
C28_NonZeroOverrideWins ==
  SampledOverArea =>
     /\ (radius.given /\ radius.val # 0) => effective_radius = radius.val
     /\ (~radius.given \/ radius.val = 0) =>
          (effective_radius = DerivedRadius(geojson_area) /\ effective_radius >= 50)
     /\ cv_result # None => cv_result.radius = effective_radius

\* the second attempt over an area with an override of 75
C28_Witness ==
  /\ cv_pc = "query" /\ geojson_area # None
  /\ attempt = 2
  /\ radius = Given(75)
  /\ effective_radius = 75

\* reachability of the two cases of the derived radius: clamped and unclamped
RadiusClampedSeen ==
  cv_pc = "query" /\ geojson_area # None /\ ~radius.given /\ effective_radius = 50
RadiusUnclampedSeen ==
  cv_pc = "query" /\ geojson_area # None /\ radius = Given(0) /\ effective_radius > 50

\* the response of the latest answered query was rejected
LastRejected ==
  cv_log # <<>> /\ ~IsMetadataAcceptable(cv_log[Len(cv_log)], optimise)
(* C29: in every run of find_streetview_random, whatever the responses: the
   attempt counter goes up by one at a time, from the loop test only, and
   never beyond max_attempts (it stays 0 when max_attempts <= 0); another
   attempt starts only at the start of the call or after a rejected
   response; an attempt is one sampled point followed by one query, so a
   waiting query has one more sample than answers and a finished attempt as
   many samples as answers, and the query leaves the sampled point alone;
   for max_attempts <= 0 the loop samples nothing, queries nothing, can
   only raise, and raises the exhaustion error with no last status. *)
C29_BoundedAttempts ==
  /\ [](/\ attempt >= 0 /\ cv_samples <= attempt
        /\ max_attempts >= 0 => attempt <= max_attempts
        /\ max_attempts <= 0 =>
             /\ attempt = 0 /\ cv_samples = 0 /\ cv_log = <<>>
             /\ cv_pc \notin {"query", "returned"}
             /\ cv_pc = "loop" => (ENABLED CovExhaust /\ ~ENABLED CovSample)
             /\ (cv_pc = "raised" /\ cv_error.kind = "StreetViewError") =>
                  (CovExhausted /\ cv_error.status = "None")
        /\ cv_pc = "query" => (cv_samples = attempt /\ Len(cv_log) = attempt - 1)
        /\ (cv_pc \in {"loop", "returned"} \/ CovExhausted) =>
             (cv_samples = attempt /\ Len(cv_log) = attempt)
        /\ cv_pc = "returned" => ~ENABLED CovNext)
  /\ [][ /\ attempt' # attempt =>
              /\ attempt' = attempt + 1
              /\ cv_pc = "loop" /\ cv_pc' \in {"query", "raised"}
              /\ attempt = 0 \/ LastRejected
         /\ cv_samples' # cv_samples =>
              (cv_samples' = cv_samples + 1 /\ attempt' = attempt + 1 /\ cv_pc' = "query")
         /\ Len(cv_log') # Len(cv_log) =>
              /\ cv_pc = "query" /\ Len(cv_log') = Len(cv_log) + 1
              /\ latlng' = latlng /\ attempt' = attempt
       ]_vars

\* the third attempt of three is waiting for its answer after two rejections
C29_Witness ==
  /\ cv_pc = "query"
  /\ attempt = 3 /\ max_attempts = 3
  /\ cv_samples = 3 /\ Len(cv_log) = 2
  /\ LastRejected

\* the exhaustion error of a call given max_attempts = -1
NoAttemptsAllowedSeen ==
  CovExhausted /\ max_attempts = -1 /\ cv_samples = 0 /\ cv_log = <<>>

----------------------------------------------------------------------------
\* The sampler's budget (checked under SpecSamplerFair)

SampEnded == s_pc \in {"returned", "raised"}

(* C30: random_point_in_polygon ends after at most max_tries draws: the
   draws made for the point are counted one by one, never more than
   max_tries (none when max_tries <= 0), a draw rejected by contains() and a
   draw rejected by the center-bias roll each take one of them; while draws
   are left one can be made and when none is left the only step is the
   exhaustion error; for max_tries <= 0 nothing is drawn and the call raises
   that error; and a running call always ends. *)
C30_TerminatesWithinBudget ==
  /\ [](/\ s_tries = Len(s_log)
        /\ s_tries <= Max2(s_max_tries, 0)
        /\ (s_pc = "loop" /\ s_tries < s_max_tries) =>
              (ENABLED SampDraw /\ ~ENABLED SampExhaust)
        /\ (s_pc = "loop" /\ s_tries >= s_max_tries) =>
              (ENABLED SampExhaust /\ ~ENABLED SampDraw)
        /\ (s_max_tries <= 0 /\ s_count >= 1) =>
              /\ s_log = <<>> /\ s_points = <<>>
              /\ s_pc # "returned"
              /\ s_pc = "raised" => SamplingExhausted)
  /\ [][ (s_pc = "loop" /\ s_pc' = "loop" /\ s_points' = s_points) =>
            /\ s_tries' = s_tries + 1
            /\ \E o \in {"out", "bias"} : s_log' = Append(s_log, o)
       ]_vars
  /\ (s_pc = "loop" ~> SampEnded)

\* a point accepted on the last draw allowed, after one rejection of each kind
C30_Witness ==
  /\ s_pc = "returned"
  /\ s_fn = "random_point_in_polygon"
  /\ s_max_tries = 3
  /\ s_log = <<"out", "bias", "ok">>

\* the exhaustion error of a call given max_tries = -1
NoDrawsAllowedSeen ==
  SamplingExhausted /\ s_max_tries = -1 /\ s_log = <<>>

----------------------------------------------------------------------------
\* Cache entries, batch tool (checked under SpecPersist and SpecBatch)

(* C31: every entry of the in-memory cache is a non-empty list, in every
   reachable state: a discovery that found no candidate raises and stores
   nothing, and the two loads store nothing for a file that yields no
   feature. *)
C31_EntriesNonEmpty ==
  \A q \in DOMAIN CACHE : CACHE[q] # <<>>

\* a bulk load that set one entry and skipped a file without features,
\* then a discovery that stored a second entry
C31_Witness ==
  /\ c_last.op = "fetch" /\ c_last.ok
  /\ c_prev.op = "load_all" /\ c_prev.count = 1
  /\ Cardinality(DOMAIN CACHE) = 2
  /\ \E n \in DOMAIN DISK : n.ext = ".geojson" /\ FeaturesOfFile(DISK[n]) = <<>>

\* ---- two different places (checked under SpecKeyPair) ----

\* the trimmed, lower-cased (city, country) of a request, an absent country
\* counting as the empty one
NormalisedPair(city, country) ==
  <<Normalised(city), IF country = NoneStr THEN <<>> ELSE Normalised(country)>>

(* C32: the place key is injective on normalised inputs: two requests whose
   trimmed, lower-cased (city, country) pairs differ get different place
   keys, so an entry cached for the first request is not a hit for the
   second. *)
C32_KeyInjective ==
  (k_pc = "done"
     /\ NormalisedPair(k_city, k_country) # NormalisedPair(k_city2, k_country2)) =>
    /\ k_key # k_key2
    /\ ~CacheHit(k_key :> <<F1>>, k_key2)

\* the two requests of the collision: city "a,b" alone, and city "a" in "b"
KeyCollisionSeen ==
  /\ k_pc = "done"
  /\ Normalised(k_city) = <<"a", ",", "b">> /\ IsBlank(k_country)
  /\ Normalised(k_city2) = <<"a">> /\ Normalised(k_country2) = <<"b">>
  /\ k_key = k_key2

\* ---- concurrent discoveries of one place (checked under SpecBatch) ----

BatchKey(i) == CityCacheKey(cities[i], NoneStr)
\* the calls whose fetch_city_geojson has returned a list
Fetched == {i \in CityIndex : m_task[i].list # <<>>}
\* the complete ranked lists a discovery of city i can come to
RankedLists(i) ==
  UNION {DiscoveryOutcomes(cities[i], bresp) : bresp \in BoundaryResponses} \ {<<>>}

(* C33: when calls of fetch_city_geojson for one place key run side by side
   from an empty cache, in every interleaving: each call that returns,
   returns a complete ranked list (the one of its own discovery, or the
   entry another call had stored when it looked); the cache entry of the
   key is always the whole list one of the calls returned, the one of the
   call that assigned last, never a mixture; and a later call for the key
   that returns, returns that entry and leaves the cache as it is. *)
C33_LastWriterWins ==
  /\ [](\A i \in Fetched :
          /\ \E j \in CityIndex :
               BatchKey(j) = BatchKey(i) /\ m_task[i].list \in RankedLists(j)
          /\ BatchKey(i) \in DOMAIN CACHE
          /\ \E j \in Fetched :
               BatchKey(j) = BatchKey(i) /\ CACHE[BatchKey(i)] = m_task[j].list
          /\ \A out \in FetchOutcomes(CACHE, cities[i], NoneStr) :
               out.ok => (out.features = CACHE[BatchKey(i)] /\ out.cache = CACHE))
  /\ [][ \A i \in CityIndex :
           /\ (m_task[i].pc = "discover" /\ m_task'[i].pc = "save") =>
                CACHE'[BatchKey(i)] = m_task'[i].list
           /\ (m_task[i].pc = "check" /\ m_task'[i].pc = "save") =>
                (m_task'[i].list = CACHE[BatchKey(i)] /\ CACHE' = CACHE)
           /\ m_task[i].list # <<>> => m_task'[i].list = m_task[i].list
       ]_vars

\* two calls for one key have both discovered, with different lists, and the
\* entry is the list of the call that was submitted first
C33_Witness ==
  /\ m_pc = "pool" /\ Len(cities) = 2
  /\ cities[1] # cities[2] /\ BatchKey(1) = BatchKey(2)
  /\ m_task[1].pc = "done" /\ m_task[2].pc = "done"
  /\ Len(m_task[1].list) > 1 /\ m_task[2].list # <<>>
  /\ m_task[1].list # m_task[2].list
  /\ CACHE[BatchKey(1)] = m_task[1].list

\* ---- sampling domain of the coverage loop (checked under SpecCoverage) ----

\* the call was given no area and no usable city
NoDomainGiven == geojson_area = None /\ (cv_city = NoneStr \/ cv_city = <<>>)

(* C34: find_streetview_random never samples from a substitute domain: as
   long as it has no area to sample from (none was passed, and no city was
   given or the city is empty) it draws no point and returns no result; the
   call ends with an error. *)
C34_NoSilentFallback ==
  (cv_pc # "call" /\ NoDomainGiven) =>
    /\ cv_samples = 0
    /\ cv_result = None
    /\ cv_pc = "raised"

\* a call with an empty city returned a point drawn from the whole globe
GlobalFallbackSeen ==
  /\ cv_pc = "returned" /\ geojson_area = None /\ cv_city = <<>>
  /\ cv_result # None /\ cv_result.radius = GlobalRadius

\* ---- the pre-builder's accounting (checked under SpecBatch) ----

\* how far a _process_city call has come
TaskRank(pc) ==
  CASE pc = "new"      -> 0
    [] pc = "queued"   -> 1
    [] pc = "check"    -> 2
    [] pc = "discover" -> 3
    [] pc = "save"     -> 4
    [] pc = "done"     -> 5
    [] pc = "counted"  -> 6
Counted(ok) == {i \in CityIndex : m_task[i].pc = "counted" /\ m_task[i].ok = ok}

\* a call is under way, or main can start, hand out, count or return
CanGoOn ==
  \/ ProcRunning # {}
  \/ ENABLED (\/ BatchStart
              \/ \E i \in CityIndex : ProcStart(i)
              \/ \E i \in CityIndex : MainCount(i)
              \/ BatchEnd)

(* C35: the pre-builder processes every listed city exactly once, in the
   sequential loop and in every interleaving of the pool: a call only moves
   forward and is counted once, in num_ok when it returned ok and in
   num_fail otherwise; a failed city leaves the run able to go on until
   every city is counted; when main returns, num_ok + num_fail is the
   number of cities, and the exit code is 0 exactly when num_fail = 0. *)
C35_EveryCityCountedOnce ==
  /\ [](/\ num_ok = Cardinality(Counted(TRUE))
        /\ num_fail = Cardinality(Counted(FALSE))
        /\ m_pc \in {"start", "loop", "pool"} => (m_exit = NoExit /\ CanGoOn)
        /\ m_pc = "done" =>
             /\ \A i \in CityIndex : m_task[i].pc = "counted"
             /\ num_ok + num_fail = Len(cities)
             /\ m_exit \in {0, 1}
             /\ m_exit = 0 <=> num_fail = 0)
  /\ [][ \A i \in CityIndex :
           /\ TaskRank(m_task'[i].pc) >= TaskRank(m_task[i].pc)
           /\ m_task[i].pc = "counted" => m_task'[i] = m_task[i]
       ]_vars

\* a pool run of two cities has returned 1: the first city failed, the
\* second was stored and saved after that
C35_Witness ==
  /\ m_pc = "done" /\ concurrency = 2 /\ Len(cities) = 2
  /\ ~m_task[1].ok /\ m_task[2].ok /\ m_task[2].written
  /\ num_ok = 1 /\ num_fail = 1 /\ m_exit = 1

\* ---- what a success of the pre-builder means (checked under SpecBatch) ----

\* the file of city i holds the list its call got from fetch_city_geojson
FileHoldsList(disk, i) ==
  /\ CacheFile(BatchKey(i)) \in DOMAIN disk
  /\ disk[CacheFile(BatchKey(i))] = JsonDump(FeatureCollection(m_task[i].list))

(* C36: a city is counted as a success only when its list was written:
   whenever _process_city returns ok = True, the file {placeKey}.geojson
   exists at that moment and holds the list fetch_city_geojson returned to
   the call. *)
C36_OkMeansWritten ==
  [][ \A i \in CityIndex :
        (m_task[i].pc = "save" /\ m_task'[i].pc = "done" /\ m_task'[i].ok) =>
          FileHoldsList(DISK', i)
    ]_vars

\* a run returned 0 with a city counted in num_ok and no file for it
SuccessWithoutFile ==
  /\ m_pc = "done" /\ m_exit = 0 /\ num_ok = Len(cities) /\ cities # <<>>
  /\ \E i \in CityIndex : m_task[i].ok /\ CacheFile(BatchKey(i)) \notin DOMAIN DISK

\* ---- the panorama batch (checked under SpecPano) ----

StatusZero == {i \in QueryIndex : p_task[i].rst.status = 0}

(* C37: in the sequential and in the concurrent mode a failing task never
   stops the batch: whatever request_pano_pipeline does for a task (success,
   request failure, download failure, missing API key, raised exception),
   main is never ended by an exception, and when it is over all num_query
   tasks were processed, the progress counter is num_query and num_success
   is the number of tasks whose status is 0. *)
C37_FailureNeverStopsBatch ==
  /\ p_pc # "crashed"
  /\ p_error = None
  /\ p_pc = "done" =>
       /\ \A i \in QueryIndex : p_task[i].pc = "collected"
       /\ progress = num_query
       /\ num_success = Cardinality(StatusZero)

\* a concurrent run without an API key was ended by the TypeError of rst[0]
\* with the progress counter at 0
MissingKeyStopsPool ==
  /\ p_pc = "crashed" /\ ~Sequential /\ ~google_api_key /\ num_query > 1
  /\ p_error.kind = "TypeError" /\ progress = 0
  /\ \A i \in QueryIndex : p_task[i].pc = "finished"

\* a sequential run was ended by an exception of the second task's pipeline
RaiseStopsLoop ==
  /\ p_pc = "crashed" /\ Sequential /\ google_api_key /\ num_query > 2
  /\ p_task[1].pc = "collected" /\ p_task[2].outcome = "raised"
  /\ p_task[3].pc = "new" /\ progress = 1

====
